---------------------------- MODULE Spec2Model ----------------------------
(***************************************************************************)
(* A model of postmortem's schema registry and of the recursive validation *)
(* it starts: the registry handles and the maps they share, the schema     *)
(* kinds (integer, string, object, array, combinators, ref), the           *)
(* validation context with its depth counter, and a validation run as a    *)
(* stack of validator calls, one step per call or per loop iteration.      *)
(***************************************************************************)
EXTENDS Integers, Sequences, FiniteSets, TLC

VARIABLES
    maps,       \* the allocated Arc<RwLock<HashMap<String, Arc<dyn ValueValidator>>>>
    handles,    \* the SchemaRegistry values alive: [schemas: index in maps, max_depth]
    origin,     \* history: for each handle, the handle made by new() it was cloned from
    accepted,   \* history: the registrations that returned Ok(())
    stack,      \* the validator calls of the validation run in progress, innermost last
    ret,        \* the Validation just returned by a validator call: <<>> or <<result>>
    last,       \* the API call made last by the thread that validates, with what it returned
    seen,       \* the API call that returned last to another thread
    lock,       \* the RwLock of the map of handle 1: who holds it, who waits for it
    threads     \* for each thread, the registry call it is in and where in it

vars == <<maps, handles, origin, accepted, stack, ret, last, seen, lock, threads>>

---------------------------------------------------------------------------
(* Bounds of the model.                                                    *)

\* SchemaRegistry values (new() and clone()) a behaviour creates.
MaxHandles == 2

\* The threads that share a registry, and the calls they make in all.
MaxThreads == 2
MaxCalls == 3

---------------------------------------------------------------------------
(* JSON values (serde_json::Value).  A string is a sequence of characters, *)
(* an object a function from its keys.                                     *)

Null == [t |-> "null"]
Num(n) == [t |-> "number", n |-> n]
\* A number with a fractional part, and an integer above i64::MAX, which
\* serde_json holds as f64 and as u64: kept by their digits.
Float(digits) == [t |-> "number", f |-> digits]
U64(digits) == [t |-> "number", u |-> digits]
Str(s) == [t |-> "string", s |-> s]
Arr(items) == [t |-> "array", items |-> items]
Obj(m) == [t |-> "object", m |-> m]

\* value_type_name: "number", "string", ... is the tag itself.
value_type_name(value) == value.t

\* The keys a model object can hold, in the order of Ord for String, which is
\* the order a serde_json::Map iterates in.
KeyOrder == <<"a", "id", "m", "next", "value", "x", "z">>

RECURSIVE KeysFrom(_, _)
KeysFrom(m, k) ==
    IF k > Len(KeyOrder) THEN <<>>
    ELSE (IF KeyOrder[k] \in DOMAIN m THEN <<KeyOrder[k]>> ELSE <<>>)
         \o KeysFrom(m, k + 1)

\* The keys of object m in iteration order.
ObjKeys(m) == KeysFrom(m, 1)

---------------------------------------------------------------------------
(* JsonPath: a sequence of segments.                                       *)

root == <<>>
push_field(path, name) == Append(path, [seg |-> "field", name |-> name, index |-> 0])
push_index(path, index) == Append(path, [seg |-> "index", name |-> "", index |-> index])

---------------------------------------------------------------------------
(* SchemaError and Validation<Value, SchemaErrors>.  A message is kept as  *)
(* its format with the name, the number and the indices it interpolates.   *)

Msg(fmt, name, num) == [fmt |-> fmt, name |-> name, num |-> num, indices |-> <<>>]
\* A message that prints a list of indices ({:?} of a Vec<usize>).
MsgIndices(fmt, indices) == [fmt |-> fmt, name |-> "", num |-> 0, indices |-> indices]

SchemaError(path, message, code) == [path |-> path, message |-> message, code |-> code]

Success(v) == [ok |-> TRUE, value |-> v, errors |-> <<>>]
Failure(errors) == [ok |-> FALSE, value |-> Null, errors |-> errors]

\* SchemaErrors::single
single(error) == <<error>>

---------------------------------------------------------------------------
(* Schemas.                                                                *)

IntegerSchema(constraints) == [kind |-> "integer", constraints |-> constraints]
StringSchema(constraints) ==
    [kind |-> "string", constraints |-> constraints,
     transforms |-> <<>>, custom_validators |-> <<>>]
\* StringSchema::trim, ::lowercase and ::custom.  A custom validator is kept
\* as the strings it rejects and the codes of the errors it then returns.
trim(schema) == [schema EXCEPT !.transforms = Append(@, "Trim")]
lowercase(schema) == [schema EXCEPT !.transforms = Append(@, "Lowercase")]
CustomValidator(rejects, codes) == [rejects |-> rejects, codes |-> codes]
string_custom(schema, validator) ==
    [schema EXCEPT !.custom_validators = Append(@, validator)]
RefSchema(name) == [kind |-> "ref", name |-> name]
ArraySchema(item_schema, constraints) ==
    [kind |-> "array", item_schema |-> item_schema, constraints |-> constraints]
OneOf(validators) == [kind |-> "one_of", validators |-> validators]
AnyOf(validators) == [kind |-> "any_of", validators |-> validators]
AllOf(validators) == [kind |-> "all_of", validators |-> validators]
Optional(validator) == [kind |-> "optional", validators |-> <<validator>>]

\* FieldDef: default is <<>> (None) or <<value>> (Some).
FieldDef(name, schema, required, default) ==
    [name |-> name, schema |-> schema, required |-> required, default |-> default]
\* ObjectSchema::field / ::optional
field(name, schema) == FieldDef(name, schema, TRUE, <<>>)
optional(name, schema) == FieldDef(name, schema, FALSE, <<>>)
\* ObjectSchema::default
default(name, schema, value) == FieldDef(name, schema, FALSE, <<value>>)

\* AdditionalProperties: Allow, Deny or Validate(schema).
Allow == [policy |-> "Allow"]
Deny == [policy |-> "Deny"]
Validate(schema) == [policy |-> "Validate", schema |-> schema]

\* The fields in the order of their names.
RECURSIVE FieldsByName(_, _)
FieldsByName(fields, k) ==
    IF k > Len(KeyOrder) THEN <<>>
    ELSE SelectSeq(fields, LAMBDA fd : fd.name = KeyOrder[k]) \o FieldsByName(fields, k + 1)

\* An ObjectSchema that keeps its fields in a map sorted by name.
ObjectSchema_sorted(fields, additional_properties) ==
    [kind |-> "object", fields |-> FieldsByName(fields, 1),
     additional_properties |-> additional_properties,
     cross_field_validators |-> <<>>, skip_on_field_errors |-> TRUE]

\* An ObjectSchema with these fields (in insertion order) and this policy, and
\* as ObjectSchema::new leaves the rest: no cross-field validator,
\* skip_on_field_errors set.
ObjectSchema(fields, additional_properties) ==
    [kind |-> "object", fields |-> fields,
     additional_properties |-> additional_properties,
     cross_field_validators |-> <<>>, skip_on_field_errors |-> TRUE]

\* ObjectSchema::custom with one of the built-in closures, and
\* ObjectSchema::skip_cross_field_on_errors.
custom(schema, validator) ==
    [schema EXCEPT !.cross_field_validators = Append(@, validator)]
skip_cross_field_on_errors(schema, skip) ==
    [schema EXCEPT !.skip_on_field_errors = skip]
mutually_exclusive(field1, field2) ==
    [v |-> "mutually_exclusive", fields |-> <<field1, field2>>]
at_least_one_of(fields) == [v |-> "at_least_one_of", fields |-> fields]

IsCombinator(schema) == schema.kind \in {"one_of", "any_of", "all_of", "optional"}

---------------------------------------------------------------------------
(* Leaf schemas: the type check, then every constraint.                    *)

Min(value) == [c |-> "Min", value |-> value]
Max(value) == [c |-> "Max", value |-> value]
Positive == [c |-> "Positive", value |-> 0]
NonNegative == [c |-> "NonNegative", value |-> 0]
Negative == [c |-> "Negative", value |-> 0]

\* numeric.rs check_constraint: None is <<>>, Some(error) is <<error>>.
check_constraint(constraint, value, path) ==
    CASE constraint.c = "Min" ->
           IF value < constraint.value
           THEN <<SchemaError(path, Msg("must be at least {}, got {}", "", constraint.value), "min_value")>>
           ELSE <<>>
      [] constraint.c = "Max" ->
           IF value > constraint.value
           THEN <<SchemaError(path, Msg("must be at most {}, got {}", "", constraint.value), "max_value")>>
           ELSE <<>>
      [] constraint.c = "Positive" ->
           IF value <= 0
           THEN <<SchemaError(path, Msg("must be positive, got {}", "", value), "positive")>>
           ELSE <<>>
      [] constraint.c = "NonNegative" ->
           IF value < 0
           THEN <<SchemaError(path, Msg("must be non-negative, got {}", "", value), "non_negative")>>
           ELSE <<>>
      [] constraint.c = "Negative" ->
           IF value >= 0
           THEN <<SchemaError(path, Msg("must be negative, got {}", "", value), "negative")>>
           ELSE <<>>

RECURSIVE IntegerErrors(_, _, _)
IntegerErrors(constraints, n, path) ==
    IF constraints = <<>> THEN <<>>
    ELSE check_constraint(Head(constraints), n, path)
         \o IntegerErrors(Tail(constraints), n, path)

\* An integer validation that records the type error and goes on to the
\* constraints with 0 for the value.
IntegerValidate_type_then_constraints(schema, value, path) ==
    IF value.t # "number" \/ "n" \notin DOMAIN value
    THEN Failure(<<SchemaError(path, Msg("expected integer", "", 0), "invalid_type")>>
                 \o IntegerErrors(schema.constraints, 0, path))
    ELSE LET errors == IntegerErrors(schema.constraints, value.n, path)
         IN  IF errors = <<>> THEN Success(value) ELSE Failure(errors)

\* IntegerSchema::validate, through validate_to_value: the match on the
\* value (an i64, a u64 above i64::MAX, a float, no number), then the
\* constraints.
IntegerValidate(schema, value, path) ==
    IF value.t # "number"
    THEN Failure(single(SchemaError(path, Msg("expected integer", "", 0), "invalid_type")))
    ELSE IF "u" \in DOMAIN value
    THEN Failure(single(SchemaError(path,
             Msg("integer value too large for i64", "", 0), "overflow")))
    ELSE IF "f" \in DOMAIN value
    THEN Failure(single(SchemaError(path,
             Msg("expected integer, got float", "", 0), "invalid_type")))
    ELSE LET errors == IntegerErrors(schema.constraints, value.n, path)
         IN  IF errors = <<>> THEN Success(value) ELSE Failure(errors)

MinLength(min) == [c |-> "MinLength", value |-> min]
MaxLength(max) == [c |-> "MaxLength", value |-> max]
Pattern(pattern_str) == [c |-> "Pattern", pattern_str |-> pattern_str]
StartsWith(prefix) == [c |-> "StartsWith", prefix |-> prefix]

\* The characters of the model's strings.
LowerChars == {"a", "b", "c"}
UpperChars == {"A", "B", "C"}

\* Regex::is_match for the patterns of the model.
is_match(pattern_str, value) ==
    CASE pattern_str = "^[a-z]+$" ->
           value # <<>> /\ \A i \in 1..Len(value) : value[i] \in LowerChars
      [] pattern_str = "^[A-Z]" ->
           value # <<>> /\ value[1] \in UpperChars

\* str::starts_with
starts_with(value, prefix) ==
    Len(prefix) <= Len(value) /\ SubSeq(value, 1, Len(prefix)) = prefix

\* str::trim: the string without its leading and trailing spaces.
RECURSIVE trim_start(_)
trim_start(s) == IF s # <<>> /\ Head(s) = " " THEN trim_start(Tail(s)) ELSE s
RECURSIVE trim_end(_)
trim_end(s) ==
    IF s # <<>> /\ s[Len(s)] = " " THEN trim_end(SubSeq(s, 1, Len(s) - 1)) ELSE s
str_trim(s) == trim_end(trim_start(s))

\* str::to_lowercase
lower_char(ch) ==
    CASE ch = "A" -> "a" [] ch = "B" -> "b" [] ch = "C" -> "c" [] OTHER -> ch
to_lowercase(s) == [i \in 1..Len(s) |-> lower_char(s[i])]

\* The loop over self.transforms.
RECURSIVE Transformed(_, _)
Transformed(transforms, s) ==
    IF transforms = <<>> THEN s
    ELSE Transformed(Tail(transforms),
                     IF Head(transforms) = "Trim" THEN str_trim(s) ELSE to_lowercase(s))

\* string.rs check_constraint.
string_check_constraint(constraint, value, path) ==
    CASE constraint.c = "Pattern" ->
           IF ~is_match(constraint.pattern_str, value)
           THEN <<SchemaError(path, Msg("must match pattern '{}'", constraint.pattern_str, 0), "pattern")>>
           ELSE <<>>
      [] constraint.c = "StartsWith" ->
           IF ~starts_with(value, constraint.prefix)
           THEN <<SchemaError(path, Msg("must start with '{}'", "", Len(constraint.prefix)), "invalid_prefix")>>
           ELSE <<>>
      [] constraint.c = "MinLength" ->
           IF Len(value) < constraint.value
           THEN <<SchemaError(path, Msg("length must be at least {}, got {}", "", constraint.value), "min_length")>>
           ELSE <<>>
      [] constraint.c = "MaxLength" ->
           IF Len(value) > constraint.value
           THEN <<SchemaError(path, Msg("length must be at most {}, got {}", "", constraint.value), "max_length")>>
           ELSE <<>>

\* A loop over the constraints that stops at the first error.
RECURSIVE StringErrors_first(_, _, _)
StringErrors_first(constraints, s, path) ==
    IF constraints = <<>> THEN <<>>
    ELSE IF string_check_constraint(Head(constraints), s, path) # <<>>
    THEN string_check_constraint(Head(constraints), s, path)
    ELSE StringErrors_first(Tail(constraints), s, path)

RECURSIVE StringErrors(_, _, _)
StringErrors(constraints, s, path) ==
    IF constraints = <<>> THEN <<>>
    ELSE string_check_constraint(Head(constraints), s, path)
         \o StringErrors(Tail(constraints), s, path)

\* A call of one custom validator: the errors of the Failure it returns.
custom_errors(validator, s, path) ==
    IF s \in validator.rejects
    THEN [k \in 1..Len(validator.codes) |->
             SchemaError(path, Msg("custom", "", k), validator.codes[k])]
    ELSE <<>>

\* The loop over self.custom_validators.
RECURSIVE CustomErrors(_, _, _)
CustomErrors(validators, s, path) ==
    IF validators = <<>> THEN <<>>
    ELSE custom_errors(Head(validators), s, path)
         \o CustomErrors(Tail(validators), s, path)

\* StringSchema::validate, through validate_to_value: the type check, the
\* transformations, the constraints, the custom validators.
StringValidate(schema, value, path) ==
    IF value.t # "string"
    THEN Failure(single(SchemaError(path, Msg("expected string", "", 0), "invalid_type")))
    ELSE LET transformed == Transformed(schema.transforms, value.s)
             errors == StringErrors(schema.constraints, transformed, path)
                       \o CustomErrors(schema.custom_validators, transformed, path)
         IN  IF errors = <<>> THEN Success(Str(transformed)) ELSE Failure(errors)

---------------------------------------------------------------------------
(* collect_refs: the names of the Ref nodes a schema reaches.              *)

RECURSIVE collect_refs(_)
RECURSIVE CollectAll(_)

\* The loop `for validator in validators { validator.collect_refs(refs) }`.
CollectAll(validators) ==
    IF validators = <<>> THEN <<>>
    ELSE collect_refs(Head(validators)) \o CollectAll(Tail(validators))

\* What one schema pushes onto refs.  RefSchema pushes its name, ArraySchema
\* and CombinatorSchema delegate to their children; every other kind,
\* ObjectSchema included, keeps the trait's default, which pushes nothing.
collect_refs(schema) ==
    CASE schema.kind = "ref" -> <<schema.name>>
      [] schema.kind = "array" -> collect_refs(schema.item_schema)
      [] IsCombinator(schema) -> CollectAll(schema.validators)
      [] OTHER -> <<>>

---------------------------------------------------------------------------
(* The registry.                                                           *)

\* SchemaRegistry::new sets max_depth to 100.
DefaultMaxDepth == 100

\* The registered names of the model in the order of Ord for String.
NameOrder == <<"A", "B", "C", "Node", "User", "UserId">>
NameRank(name) == CHOOSE i \in 1..Len(NameOrder) : NameOrder[i] = name
StrLess(a, b) == NameRank(a) < NameRank(b)

contains_key(schemas, name) == name \in DOMAIN schemas
\* An insert that forgets the entries already there.
insert_alone(schemas, name, schema) == [n \in {name} |-> schema]

\* HashMap::insert: the new value replaces one already there.
insert(schemas, name, schema) ==
    [n \in DOMAIN schemas \cup {name} |-> IF n = name THEN schema ELSE schemas[n]]

\* The value of type ().
Unit == [unit |-> TRUE]

Ok(v) == [is_ok |-> TRUE, v |-> v]
Err(e) == [is_ok |-> FALSE, v |-> e]
DuplicateName(name) == [error |-> "DuplicateName", name |-> name]
SchemaNotFound(name) == [error |-> "SchemaNotFound", name |-> name]
None == <<>>
Some(x) == <<x>>

\* A register that inserts without looking for the name.
register_overwrite(schemas, name, schema) ==
    [schemas |-> insert(schemas, name, schema), result |-> Ok(Unit)]

\* SchemaRegistry::register on the locked map: the map afterwards, and the result.
register(schemas, name, schema) ==
    IF contains_key(schemas, name)
    THEN [schemas |-> schemas, result |-> Err(DuplicateName(name))]
    ELSE [schemas |-> insert(schemas, name, schema), result |-> Ok(Unit)]

\* SchemaRegistry::get on the locked map.
get(schemas, name) ==
    IF contains_key(schemas, name) THEN Some(schemas[name]) ELSE None

\* A clone that copies the map into a new allocation.
clone_deep(allmaps, handle) ==
    [maps |-> Append(allmaps, allmaps[handle.schemas]),
     handle |-> [schemas |-> Len(allmaps) + 1, max_depth |-> handle.max_depth]]

\* Clone for SchemaRegistry: Arc::clone of the map, a copy of max_depth.
clone(allmaps, handle) ==
    [maps |-> allmaps,
     handle |-> [schemas |-> handle.schemas, max_depth |-> handle.max_depth]]

RECURSIVE SortedInsert(_, _)
SortedInsert(sorted, x) ==
    IF sorted = <<>> THEN <<x>>
    ELSE IF StrLess(x, Head(sorted)) THEN <<x>> \o sorted
    ELSE <<Head(sorted)>> \o SortedInsert(Tail(sorted), x)

\* A sort that leaves the vector as it is.
sort_none(v) == v

\* Vec<String>::sort.
RECURSIVE sort(_)
sort(v) == IF v = <<>> THEN <<>> ELSE SortedInsert(sort(Tail(v)), Head(v))

\* Vec::dedup: of each run of equal neighbours the first is kept.
RECURSIVE dedup(_)
dedup(v) ==
    IF Len(v) < 2 THEN v
    ELSE IF v[1] = v[2] THEN dedup(Tail(v))
    ELSE <<v[1]>> \o dedup(Tail(v))

\* The loop over schemas.values(), which visits the entries in `order`.
RECURSIVE AllRefs(_, _)
AllRefs(schemas, order) ==
    IF order = <<>> THEN <<>>
    ELSE collect_refs(schemas[Head(order)]) \o AllRefs(schemas, Tail(order))

\* The loop keeping the names that are no key of the map.
RECURSIVE Unresolved(_, _)
Unresolved(schemas, all_refs) ==
    IF all_refs = <<>> THEN <<>>
    ELSE (IF ~contains_key(schemas, Head(all_refs)) THEN <<Head(all_refs)>> ELSE <<>>)
         \o Unresolved(schemas, Tail(all_refs))

\* SchemaRegistry::validate_refs on the locked map, whose values() iterates
\* in `order` (a HashMap promises no order).
validate_refs(schemas, order) ==
    dedup(sort(Unresolved(schemas, AllRefs(schemas, order))))

\* The orders a HashMap with these keys can iterate in.
RECURSIVE Orders(_)
Orders(keys) ==
    IF keys = {} THEN {<<>>}
    ELSE UNION {{<<k>> \o rest : rest \in Orders(keys \ {k})} : k \in keys}

---------------------------------------------------------------------------
(* The validation context and the validator calls of a run.                *)

\* A call without a context (validate, validate_to_value).
NoContext == [has |-> FALSE, registry |-> 0, depth |-> 0, max_depth |-> 0]

\* A starting depth of one.
ValidationContext_new_one(registry, max_depth) ==
    [has |-> TRUE, registry |-> registry, depth |-> 1, max_depth |-> max_depth]

\* ValidationContext::new; registry is the index in maps of the shared map.
ValidationContext_new(registry, max_depth) ==
    [has |-> TRUE, registry |-> registry, depth |-> 0, max_depth |-> max_depth]

\* An increment that leaves the depth as it is.
increment_depth_same(context) == context

\* ValidationContext::increment_depth
increment_depth(context) == [context EXCEPT !.depth = context.depth + 1]

\* One validator call: pc counts the children called so far, errors and
\* validated are the locals the call accumulates in.
Frame(schema, value, path, context) ==
    [schema |-> schema, value |-> value, path |-> path, context |-> context,
     pc |-> 0, errors |-> <<>>, validated |-> <<>>]

\* The deepest call stack a run may build.
MaxStack == 160

Top == stack[Len(stack)]

\* The call on top returns r; the outermost call's result is what
\* SchemaRegistry::validate wraps in Ok, and what a schema's own validate
\* returns as it is.
Returns(r) ==
    /\ stack' = SubSeq(stack, 1, Len(stack) - 1)
    /\ ret' = IF Len(stack) = 1 THEN <<>> ELSE <<r>>
    /\ last' = IF Len(stack) = 1
               THEN [last EXCEPT !.pending = FALSE,
                                 !.result = IF last.op = "validate" THEN Ok(r) ELSE r]
               ELSE last
    /\ UNCHANGED <<maps, handles, origin, accepted, seen>>

\* A return that has nothing to do with the lock.
Return(r) == Returns(r) /\ UNCHANGED <<lock, threads>>

\* The call on top, now in state f, calls child.
Calls(f, child) ==
    /\ Len(stack) < MaxStack
    /\ stack' = Append([stack EXCEPT ![Len(stack)] = f], child)
    /\ ret' = <<>>
    /\ UNCHANGED <<maps, handles, origin, accepted, last, seen>>

\* A call that has nothing to do with the lock.
Call(f, child) == Calls(f, child) /\ UNCHANGED <<lock, threads>>

Running == stack # <<>>
Fresh == Running /\ ret = <<>>
Resumed == Running /\ ret # <<>>

---------------------------------------------------------------------------
(* Leaf schemas keep SchemaLike's defaults: with or without a context the  *)
(* call is validate_to_value.                                              *)

StepLeaf ==
    /\ Fresh
    /\ Top.schema.kind \in {"integer", "string"}
    /\ Return(IF Top.schema.kind = "integer"
              THEN IntegerValidate(Top.schema, Top.value, Top.path)
              ELSE StringValidate(Top.schema, Top.value, Top.path))

---------------------------------------------------------------------------
(* RefSchema.                                                              *)

\* A missing_registry error that names the root for its path.
missing_registry_at_root(name, path) ==
    Failure(single(SchemaError(root,
        Msg("reference to '{}' cannot be validated without a registry", name, 0),
        "missing_registry")))

missing_registry(name, path) ==
    Failure(single(SchemaError(path,
        Msg("reference to '{}' cannot be validated without a registry", name, 0),
        "missing_registry")))

max_depth_exceeded(path, context) ==
    Failure(single(SchemaError(path,
        Msg("maximum reference depth {} exceeded at path '{}'", "", context.max_depth),
        "max_depth_exceeded")))

\* A missing_reference error that names the root for its path.
missing_reference_at_root(name, path) ==
    Failure(single(SchemaError(root,
        Msg("schema '{}' not found in registry", name, 0), "missing_reference")))

missing_reference(name, path) ==
    Failure(single(SchemaError(path,
        Msg("schema '{}' not found in registry", name, 0), "missing_reference")))

\* A Ref that resolves the name before it looks at the depth.
ref_lookup_first(name, path, context, found) ==
    IF found = None
    THEN [done |-> TRUE, result |-> missing_reference(name, path)]
    ELSE IF context.depth >= context.max_depth
    THEN [done |-> TRUE, result |-> max_depth_exceeded(path, context)]
    ELSE [done |-> FALSE, schema |-> found[1], context |-> increment_depth(context)]

\* RefSchema::validate_with_context up to the call of the resolved schema;
\* found is what context.registry().get_schema(name) returns, which the code
\* asks for only past the depth check.
ref_validate_with_context(name, path, context, found) ==
    IF context.depth >= context.max_depth
    THEN [done |-> TRUE, result |-> max_depth_exceeded(path, context)]
    ELSE IF found = None
    THEN [done |-> TRUE, result |-> missing_reference(name, path)]
    ELSE [done |-> FALSE, schema |-> found[1], context |-> increment_depth(context)]

StepRef ==
    /\ Running
    /\ Top.schema.kind = "ref"
    /\ IF Resumed THEN Return(ret[1])
       ELSE IF ~Top.context.has
       THEN Return(missing_registry(Top.schema.name, Top.path))
       ELSE LET r == ref_validate_with_context(Top.schema.name, Top.path, Top.context,
                          get(maps[Top.context.registry], Top.schema.name))
            IN  IF r.done
                THEN Return(r.result)
                ELSE Call([Top EXCEPT !.pc = 1],
                          Frame(r.schema, Top.value, Top.path, r.context))

---------------------------------------------------------------------------
(* ArraySchema.                                                            *)

Unique == [c |-> "Unique", value |-> 0]
\* ArraySchema::unique_by with the key function |v| v.get(key) or null.
UniqueBy(key) == [c |-> "UniqueBy", value |-> 0, key |-> key]

\* The two key functions: the item itself, and the item's value under key.
identity(item) == item
get_or_null(item, key) ==
    IF item.t = "object" /\ key \in DOMAIN item.m THEN item.m[key] ELSE Null

\* A key function as a value (the closure handed to find_duplicates), and its
\* call on an item.
KeyFn(f, key) == [f |-> f, key |-> key]
key_of(key_fn, item) ==
    IF key_fn.f = "identity" THEN identity(item) ELSE get_or_null(item, key_fn.key)

invalid_type(path, expected) ==
    Failure(single(SchemaError(path, Msg(expected, "", 0), "invalid_type")))

\* The loop over the length constraints.
RECURSIVE ArrayLengthErrors(_, _, _)
ArrayLengthErrors(constraints, len, path) ==
    IF constraints = <<>> THEN <<>>
    ELSE LET c == Head(constraints)
             e == CASE c.c = "MinLength" /\ len < c.value ->
                         <<SchemaError(path,
                             Msg("array must have at least {} items, got {}", "", c.value),
                             "min_length")>>
                    [] c.c = "MaxLength" /\ len > c.value ->
                         <<SchemaError(path,
                             Msg("array must have at most {} items, got {}", "", c.value),
                             "max_length")>>
                    [] OTHER -> <<>>
         IN  e \o ArrayLengthErrors(Tail(constraints), len, path)

\* The ascending sequence of a set of indices.
RECURSIVE Ascending(_)
Ascending(S) ==
    IF S = {} THEN <<>>
    ELSE LET m == CHOOSE x \in S : \A y \in S : x <= y
         IN  <<m>> \o Ascending(S \ {m})

\* find_duplicates: the groups of (0-based) indices holding items whose keys
\* have the same serialization, those of one item included.
find_duplicates(arr, key_fn) ==
    {Ascending({j - 1 : j \in {k \in 1..Len(arr) :
                                  key_of(key_fn, arr[k]) = key_of(key_fn, arr[i])}}) :
         i \in 1..Len(arr)}

\* The errors of one Unique or UniqueBy constraint when duplicates.values()
\* iterates in `order`; fmt is the constraint's message.
RECURSIVE UniqueErrors(_, _, _)
UniqueErrors(order, path, fmt) ==
    IF order = <<>> THEN <<>>
    ELSE (IF Len(Head(order)) > 1
          THEN <<SchemaError(path, MsgIndices(fmt, Head(order)), "unique")>>
          ELSE <<>>)
         \o UniqueErrors(Tail(order), path, fmt)

\* The error lists the loop over the uniqueness constraints can give: each
\* Unique or UniqueBy constraint builds its own HashMap, which iterates in
\* some order.
RECURSIVE UniquenessErrors(_, _, _)
UniquenessErrors(constraints, arr, path) ==
    IF constraints = <<>> THEN {<<>>}
    ELSE LET rest == UniquenessErrors(Tail(constraints), arr, path)
             c == Head(constraints)
         IN  CASE c.c = "Unique" ->
                    {UniqueErrors(order, path, "duplicate value at indices {:?}") \o r :
                         order \in Orders(find_duplicates(arr, KeyFn("identity", ""))), r \in rest}
               [] c.c = "UniqueBy" ->
                    {UniqueErrors(order, path, "duplicate key at indices {:?}") \o r :
                         order \in Orders(find_duplicates(arr, KeyFn("get_or_null", c.key))), r \in rest}
               [] OTHER -> rest

\* The item call: validate_to_value_with_context with the array's own context
\* in validate_with_context, validate_to_value in validate.
ArrayItem(f, k) ==
    Frame(f.schema.item_schema, f.value.items[k], push_index(f.path, k - 1), f.context)

\* An end that looks for duplicates among the items that validated.
ArrayFinish_validated(f) ==
    \E unique \in UniquenessErrors(f.schema.constraints, f.validated, f.path) :
        LET errors == f.errors \o unique
        IN  Return(IF errors = <<>> THEN Success(Arr(f.validated)) ELSE Failure(errors))

\* The end of ArraySchema::validate / validate_with_context.
ArrayFinish(f) ==
    \E unique \in UniquenessErrors(f.schema.constraints, f.value.items, f.path) :
        LET errors == f.errors \o unique
        IN  Return(IF errors = <<>> THEN Success(Arr(f.validated)) ELSE Failure(errors))

StepArray ==
    /\ Running
    /\ Top.schema.kind = "array"
    /\ IF Resumed
       THEN LET r == ret[1]
                f == IF r.ok
                     THEN [Top EXCEPT !.validated = Append(@, r.value)]
                     ELSE [Top EXCEPT !.errors = @ \o r.errors]
            IN  IF f.pc < Len(f.value.items)
                THEN Call([f EXCEPT !.pc = @ + 1], ArrayItem(f, f.pc + 1))
                ELSE ArrayFinish(f)
       ELSE IF Top.value.t # "array"
       THEN Return(invalid_type(Top.path, "expected array"))
       ELSE LET f == [Top EXCEPT !.errors = ArrayLengthErrors(Top.schema.constraints,
                                                Len(Top.value.items), Top.path)]
            IN  IF Top.value.items = <<>>
                THEN ArrayFinish(f)
                ELSE Call([f EXCEPT !.pc = 1], ArrayItem(f, 1))

---------------------------------------------------------------------------
(* CombinatorSchema.  Without a context a component is called through its  *)
(* closure (validate_value), with one through validate_value_with_context  *)
(* and the context the combinator received.                                *)

\* A component call one level deeper than the combinator.
CombinatorChild_deeper(f, k) ==
    Frame(f.schema.validators[k], f.value, f.path, increment_depth(f.context))

CombinatorChild(f, k) == Frame(f.schema.validators[k], f.value, f.path, f.context)

\* The indices (0-based, ascending) of the successes among results.
ValidIndices(results) == Ascending({k - 1 : k \in {j \in 1..Len(results) : results[j].ok}})

\* A OneOf that is content with the first of several matches.
OneOfResult_first_match(results, path) ==
    LET valid == ValidIndices(results)
    IN  IF Len(valid) = 0
        THEN Failure(single(SchemaError(path,
                 Msg("value did not match any of {} schemas", "", Len(results)),
                 "one_of_none_matched")))
        ELSE Success(results[valid[1] + 1].value)

\* The match on valid.len() of validate_one_of(_with_context).
OneOfResult(results, path) ==
    LET valid == ValidIndices(results)
    IN  CASE Len(valid) = 0 ->
               Failure(single(SchemaError(path,
                   Msg("value did not match any of {} schemas", "", Len(results)),
                   "one_of_none_matched")))
          [] Len(valid) = 1 -> Success(results[valid[1] + 1].value)
          [] OTHER ->
               Failure(single(SchemaError(path,
                   MsgIndices("value matched {} schemas (indices {:?}), expected exactly one",
                              valid),
                   "one_of_multiple_matched")))

any_of_none_matched(n, path) ==
    Failure(single(SchemaError(path,
        Msg("value did not match any of {} schemas", "", n), "any_of_none_matched")))

\* An end of AllOf that takes a missing last_valid for a failure.
AllOfResult_by_last_valid(f) ==
    IF f.validated = <<>> THEN Failure(f.errors) ELSE Success(f.validated[1])

\* The end of validate_all_of(_with_context): validated holds last_valid.
AllOfResult(f) ==
    IF f.errors = <<>>
    THEN Success(IF f.validated = <<>> THEN f.value ELSE f.validated[1])
    ELSE Failure(f.errors)

\* What a combinator over no component returns.
EmptyResult(f) ==
    CASE f.schema.kind = "one_of" -> OneOfResult(<<>>, f.path)
      [] f.schema.kind = "any_of" -> any_of_none_matched(0, f.path)
      [] f.schema.kind = "all_of" -> AllOfResult(f)

\* An AnyOf that goes on after a success and returns the last one.
AnyOfResume_run_all(f, r) ==
    LET g == IF r.ok THEN [f EXCEPT !.validated = <<r.value>>] ELSE f
    IN  IF g.pc < Len(g.schema.validators)
        THEN Call([g EXCEPT !.pc = @ + 1], CombinatorChild(g, g.pc + 1))
        ELSE IF g.validated # <<>>
        THEN Return(Success(g.validated[1]))
        ELSE Return(any_of_none_matched(Len(g.schema.validators), g.path))

\* The loop of validate_any_of(_with_context) when a component has returned r.
AnyOfResume(f, r) ==
    IF r.ok
    THEN Return(Success(r.value))
    ELSE IF f.pc < Len(f.schema.validators)
    THEN Call([f EXCEPT !.pc = @ + 1], CombinatorChild(f, f.pc + 1))
    ELSE Return(any_of_none_matched(Len(f.schema.validators), f.path))

\* An AllOf that returns at the first failure.
AllOfResume_fail_fast(f, r) ==
    IF ~r.ok THEN Return(Failure(r.errors))
    ELSE LET g == [f EXCEPT !.validated = <<r.value>>]
         IN  IF g.pc < Len(g.schema.validators)
             THEN Call([g EXCEPT !.pc = @ + 1], CombinatorChild(g, g.pc + 1))
             ELSE Return(AllOfResult(g))

\* The loop of validate_all_of(_with_context) when a component has returned r.
AllOfResume(f, r) ==
    LET g == IF r.ok
             THEN [f EXCEPT !.validated = <<r.value>>]
             ELSE [f EXCEPT !.errors = @ \o r.errors]
    IN  IF g.pc < Len(g.schema.validators)
        THEN Call([g EXCEPT !.pc = @ + 1], CombinatorChild(g, g.pc + 1))
        ELSE Return(AllOfResult(g))

\* A component has returned r to the combinator call f.
CombinatorResume(f, r) ==
    CASE f.schema.kind = "optional" -> Return(r)
      [] f.schema.kind = "one_of" ->
           LET g == [f EXCEPT !.validated = Append(@, r)]
           IN  IF g.pc < Len(g.schema.validators)
               THEN Call([g EXCEPT !.pc = @ + 1], CombinatorChild(g, g.pc + 1))
               ELSE Return(OneOfResult(g.validated, g.path))
      [] f.schema.kind = "any_of" -> AnyOfResume(f, r)
      [] f.schema.kind = "all_of" -> AllOfResume(f, r)

StepCombinator ==
    /\ Running
    /\ IsCombinator(Top.schema)
    /\ IF Resumed THEN CombinatorResume(Top, ret[1])
       ELSE IF Top.schema.kind = "optional" /\ Top.value = Null
       THEN Return(Success(Null))
       ELSE IF Top.schema.validators = <<>>
       THEN Return(EmptyResult(Top))
       ELSE Call([Top EXCEPT !.pc = 1], CombinatorChild(Top, 1))

---------------------------------------------------------------------------
(* ObjectSchema.  Its SchemaLike impl defines validate and                 *)
(* validate_to_value only, so a call with a context falls to the trait's   *)
(* default, which drops the context; every field schema sits in a          *)
(* SchemaWrapper and is called through validate_to_value.                  *)

FieldNames(schema) == {schema.fields[k].name : k \in 1..Len(schema.fields)}

\* The input's keys that are no declared field, in the input's order.
ExtraKeys(schema, m) == SelectSeq(ObjKeys(m), LAMBDA key : key \notin FieldNames(schema))

\* The key the k-th iteration is about: the fields first, then the other keys.
ObjKey(f, k) ==
    IF k <= Len(f.schema.fields)
    THEN f.schema.fields[k].name
    ELSE ExtraKeys(f.schema, f.value.m)[k - Len(f.schema.fields)]

\* A field call that hands the object's context on.
ObjectChild_with_context(f, k) ==
    Frame(IF k <= Len(f.schema.fields)
          THEN f.schema.fields[k].schema
          ELSE f.schema.additional_properties.schema,
          f.value.m[ObjKey(f, k)], push_field(f.path, ObjKey(f, k)), f.context)

\* The call schema.validate_to_value(field_value, &field_path) of iteration k.
ObjectChild(f, k) ==
    Frame(IF k <= Len(f.schema.fields)
          THEN f.schema.fields[k].schema
          ELSE f.schema.additional_properties.schema,
          f.value.m[ObjKey(f, k)], push_field(f.path, ObjKey(f, k)), NoContext)

\* A handling of an absent key that knows of no default.
absent_field_no_default(f, fd) ==
    IF fd.required
    THEN [f EXCEPT !.errors = Append(@,
             SchemaError(push_field(f.path, fd.name),
                 Msg("required field '{}' is missing", fd.name, 0), "required"))]
    ELSE f

\* The two None arms of the match on obj.get(name): the call f after them.
absent_field(f, fd) ==
    IF fd.required
    THEN [f EXCEPT !.errors = Append(@,
             SchemaError(push_field(f.path, fd.name),
                 Msg("required field '{}' is missing", fd.name, 0), "required"))]
    ELSE IF fd.default # None
    THEN [f EXCEPT !.validated = insert(@, fd.name, fd.default[1])]
    ELSE f

\* The two loops of ObjectSchema::validate from iteration k up to the next
\* call of a schema: the frame then, and the iteration that calls (0: none).
RECURSIVE ObjAdvance(_, _)
ObjAdvance(f, k) ==
    LET nf == Len(f.schema.fields)
        extra == ExtraKeys(f.schema, f.value.m)
    IN  IF k > nf + Len(extra) THEN [frame |-> f, call |-> 0]
        ELSE IF k <= nf
        THEN LET fd == f.schema.fields[k]
             IN  IF fd.name \in DOMAIN f.value.m THEN [frame |-> f, call |-> k]
                 ELSE ObjAdvance(absent_field(f, fd), k + 1)
        ELSE LET key == extra[k - nf]
                 policy == f.schema.additional_properties.policy
             IN  CASE policy = "Allow" ->
                        ObjAdvance([f EXCEPT !.validated = insert(@, key, f.value.m[key])],
                                   k + 1)
                   [] policy = "Deny" ->
                        ObjAdvance([f EXCEPT !.errors = Append(@,
                            SchemaError(push_field(f.path, key),
                                Msg("unknown field '{}'", key, 0),
                                "additional_property"))], k + 1)
                   [] policy = "Validate" -> [frame |-> f, call |-> k]

\* ValidatedObject::has
has(fields, name) == name \in DOMAIN fields /\ fields[name] # Null

\* One built-in cross-field closure on the validated fields: its errors.
cross_field(validator, fields, path) ==
    CASE validator.v = "mutually_exclusive" ->
           IF has(fields, validator.fields[1]) /\ has(fields, validator.fields[2])
           THEN <<SchemaError(path,
                    Msg("'{}' and '{}' are mutually exclusive", validator.fields[1], 0),
                    "mutually_exclusive")>>
           ELSE <<>>
      [] validator.v = "at_least_one_of" ->
           IF \E k \in 1..Len(validator.fields) : has(fields, validator.fields[k])
           THEN <<>>
           ELSE <<SchemaError(path,
                    Msg("at least one of {:?} is required", "", 0),
                    "at_least_one_required")>>

RECURSIVE CrossFieldErrors(_, _, _)
CrossFieldErrors(validators, fields, path) ==
    IF validators = <<>> THEN <<>>
    ELSE cross_field(Head(validators), fields, path)
         \o CrossFieldErrors(Tail(validators), fields, path)

\* An end that runs the cross-field validators whatever the errors so far.
ObjectFinish_always(f) ==
    LET errors == f.errors \o CrossFieldErrors(f.schema.cross_field_validators,
                                               f.validated, f.path)
    IN  Return(IF errors = <<>> THEN Success(Obj(f.validated)) ELSE Failure(errors))

\* The end of ObjectSchema::validate: the cross-field validators, the result.
ObjectFinish(f) ==
    LET errors == IF ~f.schema.skip_on_field_errors \/ f.errors = <<>>
                  THEN f.errors \o CrossFieldErrors(f.schema.cross_field_validators,
                                                    f.validated, f.path)
                  ELSE f.errors
    IN  Return(IF errors = <<>> THEN Success(Obj(f.validated)) ELSE Failure(errors))

\* The loops go on from iteration k.
ObjectContinue(f, k) ==
    LET a == ObjAdvance(f, k)
    IN  IF a.call = 0
        THEN ObjectFinish(a.frame)
        ELSE Call([a.frame EXCEPT !.pc = a.call], ObjectChild(a.frame, a.call))

StepObject ==
    /\ Running
    /\ Top.schema.kind = "object"
    /\ IF Resumed
       THEN LET r == ret[1]
                f == IF r.ok
                     THEN [Top EXCEPT !.validated = insert(@, ObjKey(Top, Top.pc), r.value)]
                     ELSE [Top EXCEPT !.errors = @ \o r.errors]
            IN  ObjectContinue(f, f.pc + 1)
       ELSE IF Top.value.t # "object"
       THEN Return(invalid_type(Top.path, "expected object"))
       ELSE ObjectContinue(Top, 1)

---------------------------------------------------------------------------
(* The lock of the map (parking_lot::RwLock) and the threads that call the *)
(* registry.  The lock is not reentrant and is fair: a read waits while a  *)
(* writer holds the lock or waits for it, a write waits for every guard to *)
(* be dropped.                                                             *)

Threads == 1..MaxThreads

\* RwLock::new: no writer, no read guard of any thread, nobody waiting.
RwLock_new == [writer |-> 0, readers |-> [t \in Threads |-> 0], waiting |-> {}]

\* A thread that is in no call of the registry and has made none.
NoCall == [pc |-> "idle", op |-> "", name |-> "", arg |-> Null, calls |-> 0]

\* schemas.read() and schemas.write() can return.
can_read(l) == l.writer = 0 /\ l.waiting = {}
can_write(l) == l.writer = 0 /\ \A t \in Threads : l.readers[t] = 0

\* Thread t gets a read guard, parks for a write guard, gets it.
read(l, t) == [l EXCEPT !.readers[t] = @ + 1]
park(l, t) == [l EXCEPT !.waiting = @ \cup {t}]
write(l, t) == [l EXCEPT !.writer = t, !.waiting = @ \ {t}]

\* The guard of `let schemas = self.schemas.read()` / `.write()` is dropped
\* when the function returns.
drop_read(l, t) == [l EXCEPT !.readers[t] = @ - 1]
drop_write(l, t) == [l EXCEPT !.writer = 0]

\* A get that returns with its read guard still alive.
get_guard_kept(l, t) == l

\* The guard of get, a temporary of `self.schemas.read().get(name).cloned()`,
\* is dropped at the end of that statement, before get returns.
get_guard(l, t) == drop_read(l, t)

---------------------------------------------------------------------------
(* The operations of SchemaRegistry.  Each runs to its end in one step,    *)
(* but validate, which starts a run of validator calls.                    *)

Idle == stack = <<>>

\* What `last` records of a call that has returned; before is history, the
\* schemas the registry held when a validate was called.
ApiCall(op, handle, name, arg, result) ==
    [op |-> op, handle |-> handle, name |-> name, arg |-> arg,
     pending |-> FALSE, result |-> result, before |-> <<>>]

\* The map a handle points to.
MapOf(h) == maps[handles[h].schemas]

\* SchemaRegistry::new: a new empty map, max_depth 100.
new(allmaps) ==
    [maps |-> Append(allmaps, <<>>),
     handle |-> [schemas |-> Len(allmaps) + 1, max_depth |-> DefaultMaxDepth]]

\* SchemaRegistry::with_max_depth
with_max_depth(handle, depth) == [handle EXCEPT !.max_depth = depth]

New ==
    /\ Idle
    /\ Len(handles) < MaxHandles
    /\ LET r == new(maps)
       IN  /\ maps' = r.maps
           /\ handles' = Append(handles, r.handle)
    /\ origin' = Append(origin, Len(handles) + 1)
    /\ last' = ApiCall("new", Len(handles) + 1, "", Null, Unit)
    /\ UNCHANGED <<accepted, stack, ret, seen, lock, threads>>

WithMaxDepth(h, depth) ==
    /\ Idle
    /\ handles' = [handles EXCEPT ![h] = with_max_depth(@, depth)]
    /\ last' = ApiCall("with_max_depth", h, "", Num(depth), Unit)
    /\ UNCHANGED <<maps, origin, accepted, stack, ret, seen, lock, threads>>

Clone(h) ==
    /\ Idle
    /\ Len(handles) < MaxHandles
    /\ LET r == clone(maps, handles[h])
       IN  /\ maps' = r.maps
           /\ handles' = Append(handles, r.handle)
    /\ origin' = Append(origin, origin[h])
    /\ last' = ApiCall("clone", h, "", Null, Unit)
    /\ UNCHANGED <<accepted, stack, ret, seen, lock, threads>>

Register(h, name, schema) ==
    /\ Idle
    /\ LET r == register(MapOf(h), name, schema)
       IN  /\ maps' = [maps EXCEPT ![handles[h].schemas] = r.schemas]
           /\ accepted' = IF r.result.is_ok
                          THEN accepted \cup {[handle |-> h, name |-> name, schema |-> schema]}
                          ELSE accepted
           /\ last' = ApiCall("register", h, name, schema, r.result)
    /\ UNCHANGED <<handles, origin, stack, ret, seen, lock, threads>>

Get(h, name) ==
    /\ Idle
    /\ last' = ApiCall("get", h, name, Null, get(MapOf(h), name))
    /\ UNCHANGED <<maps, handles, origin, accepted, stack, ret, seen, lock, threads>>

ValidateRefs(h) ==
    /\ Idle
    /\ \E order \in Orders(DOMAIN MapOf(h)) :
           last' = ApiCall("validate_refs", h, "", Null, validate_refs(MapOf(h), order))
    /\ UNCHANGED <<maps, handles, origin, accepted, stack, ret, seen, lock, threads>>

\* SchemaRegistry::validate up to the call of the schema: the context holds a
\* clone of the handle, which lives as long as the run.
validate(h, name, value) ==
    /\ Idle
    /\ LET found == get(MapOf(h), name)
           c == clone(maps, handles[h])
       IN  IF found = None
           THEN /\ last' = ApiCall("validate", h, name, value, Err(SchemaNotFound(name)))
                /\ UNCHANGED <<maps, stack>>
           ELSE /\ maps' = c.maps
                /\ stack' = <<Frame(found[1], value, root,
                                    ValidationContext_new(c.handle.schemas,
                                                          handles[h].max_depth))>>
                /\ last' = [ApiCall("validate", h, name, value, Unit)
                               EXCEPT !.pending = TRUE, !.before = MapOf(h)]
    /\ ret' = <<>>
    /\ UNCHANGED <<handles, origin, accepted, seen>>

\* A validate whose lookup is one step.
RegistryValidate(h, name, value) ==
    validate(h, name, value) /\ UNCHANGED <<lock, threads>>

\* SchemaLike::validate called on a schema itself: no registry, no context.
SchemaValidate(schema, value) ==
    /\ Idle
    /\ stack' = <<Frame(schema, value, root, NoContext)>>
    /\ ret' = <<>>
    /\ last' = [ApiCall("schema_validate", 0, "", [schema |-> schema, value |-> value], Unit)
                   EXCEPT !.pending = TRUE]
    /\ UNCHANGED <<maps, handles, origin, accepted, seen, lock, threads>>

\* The schema that has just validated a value validates it a second time;
\* before is history, the result of the first time.
SchemaValidateAgain ==
    /\ Idle
    /\ last.op = "schema_validate"
    /\ stack' = <<Frame(last.arg.schema, last.arg.value, root, NoContext)>>
    /\ ret' = <<>>
    /\ last' = [last EXCEPT !.pending = TRUE, !.before = <<last.result>>]
    /\ UNCHANGED <<maps, handles, origin, accepted, seen, lock, threads>>

\* The schema that has just validated a value validates it again, through
\* validate_value_with_context with a context made by the caller; before is
\* history, the result of the context-free call.
SchemaValidateWithContext(context) ==
    /\ Idle
    /\ last.op = "schema_validate"
    /\ stack' = <<Frame(last.arg.schema, last.arg.value, root, context)>>
    /\ ret' = <<>>
    /\ last' = [last EXCEPT !.op = "schema_validate_with_context",
                            !.pending = TRUE, !.before = <<last.result>>]
    /\ UNCHANGED <<maps, handles, origin, accepted, seen, lock, threads>>

\* register, get and validate_refs called by another thread than the one that
\* validates.  Each holds the lock of the map from its first access to its
\* last and so is one step; it may come between any two steps of a run,
\* which holds the lock only inside a lookup.
RegisterBy(h, name, schema) ==
    /\ LET r == register(MapOf(h), name, schema)
       IN  /\ maps' = [maps EXCEPT ![handles[h].schemas] = r.schemas]
           /\ accepted' = IF r.result.is_ok
                          THEN accepted \cup {[handle |-> h, name |-> name, schema |-> schema]}
                          ELSE accepted
           /\ seen' = ApiCall("register", h, name, schema, r.result)
    /\ UNCHANGED <<handles, origin, stack, ret, last, lock, threads>>

GetBy(h, name) ==
    /\ seen' = ApiCall("get", h, name, Null, get(MapOf(h), name))
    /\ UNCHANGED <<maps, handles, origin, accepted, stack, ret, last, lock, threads>>

ValidateRefsBy(h) ==
    /\ \E order \in Orders(DOMAIN MapOf(h)) :
           seen' = ApiCall("validate_refs", h, "", Null, validate_refs(MapOf(h), order))
    /\ UNCHANGED <<maps, handles, origin, accepted, stack, ret, last, lock, threads>>

\* After `let registry = SchemaRegistry::new();`
Init ==
    /\ maps = new(<<>>).maps
    /\ handles = <<new(<<>>).handle>>
    /\ origin = <<1>>
    /\ accepted = {}
    /\ stack = <<>>
    /\ ret = <<>>
    /\ last = ApiCall("new", 1, "", Null, Unit)
    /\ seen = ApiCall("new", 1, "", Null, Unit)
    /\ lock = RwLock_new
    /\ threads = [t \in Threads |-> NoCall]

Handles == 1..Len(handles)

---------------------------------------------------------------------------
(* The life of a registry: handles, clones, registrations and lookups.     *)

integer == IntegerSchema(<<>>)

Names == {"A", "B"}
Schemas == {integer, RefSchema("C")}
Values == {Num(1), Null}

Step == StepLeaf \/ StepRef

Next ==
    \/ New
    \/ \E h \in Handles : Clone(h)
    \/ \E h \in Handles, name \in Names, schema \in Schemas : Register(h, name, schema)
    \/ \E h \in Handles, name \in Names : Get(h, name)
    \/ \E h \in Handles : ValidateRefs(h)
    \/ \E h \in Handles, name \in Names, value \in Values : RegistryValidate(h, name, value)
    \/ Step

Spec == Init /\ [][Next]_vars

---------------------------------------------------------------------------
(* validate_refs over schemas that hold several references.                *)

RefsNames == {"A", "B"}
RefsSchemas ==
    {integer, RefSchema("B"), RefSchema("UserId"),
     AllOf(<<RefSchema("UserId"), RefSchema("C")>>),
     ArraySchema(OneOf(<<RefSchema("User"), RefSchema("UserId"), RefSchema("A")>>), <<>>)}

NextRefs ==
    \/ \E name \in RefsNames, schema \in RefsSchemas : Register(1, name, schema)
    \/ ValidateRefs(1)

SpecRefs == Init /\ [][NextRefs]_vars

---------------------------------------------------------------------------
(* Validation runs over registries whose references form cycles.           *)

\* The values of max_depth a run is made with, next to the default.
Depths == {0, 1, 2}

RunNames == {"A", "B", "C"}

\* The schemas registered under each name: A refers to itself, directly or
\* through an array or a combinator, or to B; B to C or back to A; C to A.
RunSchemas(name) ==
    CASE name = "A" -> {RefSchema("A"), RefSchema("B"),
                        ArraySchema(RefSchema("A"), <<>>),
                        AnyOf(<<RefSchema("B"), integer>>)}
      [] name = "B" -> {RefSchema("C"), RefSchema("A"), integer}
      [] name = "C" -> {RefSchema("A"), integer}

RunValues == {Num(1), Arr(<<>>), Arr(<<Num(1), Arr(<<Num(1)>>)>>)}

StepRun == StepLeaf \/ StepRef \/ StepArray \/ StepCombinator

NextRun ==
    \/ \E depth \in Depths : WithMaxDepth(1, depth)
    \/ \E name \in RunNames : \E schema \in RunSchemas(name) : Register(1, name, schema)
    \/ \E name \in RunNames, value \in RunValues : RegistryValidate(1, name, value)
    \/ StepRun

SpecRun == Init /\ [][NextRun]_vars

\* validate is a plain call: the thread that made it goes on to its end.
FairSpecRun == SpecRun /\ WF_vars(StepRun)

---------------------------------------------------------------------------
(* Object schemas whose fields are references.                             *)

\* Node { value: integer, next (optional): Ref("Node") }
Node ==
    ObjectSchema(<<field("value", integer), optional("next", RefSchema("Node"))>>, Allow)
\* User { id: Ref("UserId") }
User == ObjectSchema(<<field("id", RefSchema("UserId"))>>, Allow)
\* UserId: a positive integer
UserId == IntegerSchema(<<Positive>>)

NodeNames == {"Node", "User", "UserId"}
NodeSchemas(name) ==
    CASE name = "Node" -> {Node}
      [] name = "User" -> {User}
      [] name = "UserId" -> {UserId}

\* A chain of Node values nested n deep: n objects under the outermost one.
RECURSIVE chain(_)
chain(n) ==
    IF n = 0 THEN Obj([value |-> Num(0)])
    ELSE Obj([value |-> Num(n), next |-> chain(n - 1)])

NodeValues ==
    {chain(0), chain(2), chain(20), Obj([id |-> Num(42)]), Obj([id |-> Num(0)]), Num(1)}

\* The max_depth of the registry the Node schema is registered in.
NodeDepth == 5

StepNode == StepLeaf \/ StepRef \/ StepObject

NextNode ==
    \/ WithMaxDepth(1, NodeDepth)
    \/ \E name \in NodeNames : \E schema \in NodeSchemas(name) : Register(1, name, schema)
    \/ \E name \in NodeNames, value \in NodeValues : RegistryValidate(1, name, value)
    \/ ValidateRefs(1)
    \/ StepNode

SpecNode == Init /\ [][NextNode]_vars

---------------------------------------------------------------------------
(* Schemas validated on their own and through a registry: leaves with      *)
(* several constraints, combinators, arrays and objects over references.   *)

abc == <<"a", "b", "c">>

\* An integer of at least 10, positive.
int10 == IntegerSchema(<<Min(10), Positive>>)
\* A non-empty lowercase word.
word == StringSchema(<<MinLength(1), Pattern("^[a-z]+$")>>)
\* A non-empty string.
nonempty == StringSchema(<<MinLength(1)>>)
\* min_len(10), a pattern, and a custom validator that rejects "abc" with
\* two errors and one that rejects it with one.
long ==
    string_custom(
        string_custom(StringSchema(<<MinLength(10), Pattern("^[A-Z]"), StartsWith(<<"a">>)>>),
                      CustomValidator({abc}, <<"reserved", "banned">>)),
        CustomValidator({abc, <<>>}, <<"validation_error">>))
\* A trimmed, lowercased word of at most 2 characters.
tag == lowercase(trim(StringSchema(<<MaxLength(2), Pattern("^[a-z]+$")>>)))

SchemaNames == {"A"}

LeafSchemas == {integer, int10, word, long, tag}

TreeSchemas ==
    {RefSchema("A"), RefSchema("B"),
     ArraySchema(RefSchema("B"), <<MinLength(3)>>),
     ArraySchema(RefSchema("A"), <<>>),
     AllOf(<<RefSchema("B"), int10, word>>),
     AllOf(<<integer, int10>>),
     AllOf(<<>>),
     OneOf(<<word, nonempty>>),
     OneOf(<<word, int10, RefSchema("B")>>),
     AnyOf(<<int10, word, nonempty>>),
     AnyOf(<<RefSchema("B"), long>>),
     Optional(int10),
     ObjectSchema(<<field("id", RefSchema("A")), field("a", int10)>>, Deny)}

SchemaPool == LeafSchemas \cup TreeSchemas

SchemaValues ==
    {Num(0), Num(5), Num(42), Float("1.5"), U64("18446744073709551615"),
     Str(abc), Str(<<>>), Str(<<" ", "A", "b", " ">>), Null,
     Arr(<<Num(42), Null>>), Obj([id |-> Num(42), a |-> Num(5)])}

StepSchema == StepLeaf \/ StepRef \/ StepArray \/ StepCombinator \/ StepObject

NextSchema ==
    \/ \E name \in SchemaNames, schema \in SchemaPool : Register(1, name, schema)
    \/ \E name \in SchemaNames, value \in SchemaValues : RegistryValidate(1, name, value)
    \/ \E schema \in SchemaPool, value \in SchemaValues : SchemaValidate(schema, value)
    \/ StepSchema

SpecSchema == Init /\ [][NextSchema]_vars

---------------------------------------------------------------------------
(* One registry shared by a thread that validates, a thread that registers *)
(* and a thread that reads.                                                *)

SharedNames == {"A", "B"}

\* A refers to B twice, or once with a fallback; B is a plain integer schema.
SharedSchemas(name) ==
    CASE name = "A" -> {AllOf(<<RefSchema("B"), RefSchema("B")>>),
                        AnyOf(<<RefSchema("B"), integer>>), integer}
      [] name = "B" -> {integer, int10}

SharedValues == {Num(5), Null}

StepShared == StepLeaf \/ StepRef \/ StepCombinator

NextShared ==
    \/ \E name \in SharedNames : \E schema \in SharedSchemas(name) :
           RegisterBy(1, name, schema)
    \/ \E name \in SharedNames : GetBy(1, name)
    \/ ValidateRefsBy(1)
    \/ \E name \in SharedNames, value \in SharedValues : RegistryValidate(1, name, value)
    \/ StepShared

SpecShared == Init /\ [][NextShared]_vars

---------------------------------------------------------------------------
(* Object schemas validated on their own: field order, defaults,           *)
(* additional properties and cross-field validators.                       *)

\* Required fields declared z, a, m.
zam == ObjectSchema(<<field("z", integer), field("a", integer), field("m", integer)>>, Allow)

\* A required field, an optional one whose schema transforms its value, and
\* one with a default.
ProfileFields == <<field("a", int10), optional("m", tag), default("z", integer, Num(7))>>

\* a and m exclude each other, and one of m and x is needed.
checked(schema) ==
    custom(custom(schema, mutually_exclusive("a", "m")), at_least_one_of(<<"m", "x">>))

ObjectSchemas ==
    {zam,
     ObjectSchema(ProfileFields, Allow),
     ObjectSchema(ProfileFields, Deny),
     ObjectSchema(ProfileFields, Validate(word)),
     checked(ObjectSchema(ProfileFields, Allow)),
     skip_cross_field_on_errors(checked(ObjectSchema(ProfileFields, Validate(word))), FALSE)}

ObjectValues ==
    {Obj(<<>>),
     Obj([a |-> Num(42)]),
     Obj([a |-> Num(5), m |-> Str(<<" ", "A", "b">>)]),
     Obj([a |-> Num(42), m |-> Str(<<"A">>), x |-> Str(abc)]),
     Obj([m |-> Num(1), z |-> Num(1), a |-> Null]),
     Obj([a |-> Num(42), x |-> Num(0), z |-> Str(abc)]),
     Obj([x |-> Str(abc)]),
     Num(1)}

StepFields == StepLeaf \/ StepObject

NextObject ==
    \/ \E schema \in ObjectSchemas, value \in ObjectValues : SchemaValidate(schema, value)
    \/ StepFields

SpecObject == Init /\ [][NextObject]_vars

---------------------------------------------------------------------------
(* Array schemas validated on their own: lengths, items and uniqueness.    *)

\* An item with an id.
Item == ObjectSchema(<<field("id", integer)>>, Allow)

ArraySchemas ==
    {ArraySchema(IntegerSchema(<<Positive>>), <<MinLength(5), Unique>>),
     ArraySchema(integer, <<Unique>>),
     ArraySchema(integer, <<MaxLength(2)>>),
     ArraySchema(Item, <<UniqueBy("id")>>),
     ArraySchema(Item, <<Unique, MinLength(1), UniqueBy("id")>>)}

ArrayValues ==
    {Arr(<<>>),
     Arr(<<Num(1), Num(-2), Num(1)>>),
     Arr(<<Num(1), Num(2), Num(1), Num(2)>>),
     Arr(<<Num(1), Num(2), Num(3)>>),
     Arr(<<Null, Str(abc), Null, Str(abc)>>),
     Arr(<<Obj([id |-> Num(1)]), Obj([id |-> Num(1), a |-> Num(5)]), Obj([id |-> Num(2)])>>),
     Arr(<<Obj([id |-> Null]), Obj([a |-> Num(5)]), Obj([a |-> Num(5)]), Num(1), Num(1)>>),
     Num(1)}

StepItems == StepLeaf \/ StepArray \/ StepObject

NextArray ==
    \/ \E schema \in ArraySchemas, value \in ArrayValues : SchemaValidate(schema, value)
    \/ SchemaValidateAgain
    \/ StepItems

SpecArray == Init /\ [][NextArray]_vars

---------------------------------------------------------------------------
(* Error sets and their combination.                                       *)

\* SchemaErrors wraps a NonEmptyVec, which keeps its first element apart
\* from the rest.  from_vec is given a non-empty Vec.
from_vec(errors) == [head |-> Head(errors), tail |-> Tail(errors)]
into_vec(errors) == <<errors.head>> \o errors.tail
len(errors) == 1 + Len(errors.tail)

\* A combination that keeps only the first error of its argument.
combine_first_only(self, other) ==
    [head |-> self.head, tail |-> Append(self.tail, other.head)]

\* impl Semigroup for SchemaErrors: the argument's head and tail are pushed
\* after the receiver's tail.
combine(self, other) ==
    [head |-> self.head, tail |-> Append(self.tail, other.head) \o other.tail]

\* SchemaError::new(JsonPath::root(), message)
error_new(message) == SchemaError(root, Msg(message, "", 0), "validation_error")

ErrorSets ==
    {from_vec(single(error_new("1"))),
     from_vec(single(error_new("2"))),
     from_vec(single(error_new("3"))),
     from_vec(<<error_new("1"), error_new("2")>>),
     from_vec(<<error_new("3"), error_new("1"), error_new("3")>>)}

\* Three error sets, to be combined in the two groupings: the left one in
\* `last`, the right one in `seen`.
InitCombine ==
    /\ maps = new(<<>>).maps
    /\ handles = <<new(<<>>).handle>>
    /\ origin = <<1>>
    /\ accepted = {}
    /\ stack = <<>>
    /\ ret = <<>>
    /\ \E a, b, c \in ErrorSets :
           /\ last = ApiCall("errors", 0, "", [a |-> a, b |-> b, c |-> c], Unit)
           /\ seen = last
    /\ lock = RwLock_new
    /\ threads = [t \in Threads |-> NoCall]

\* a.combine(b), then (a.combine(b)).combine(c)
CombineLeft ==
    /\ last.op \in {"errors", "a.b"}
    /\ last' = IF last.op = "errors"
               THEN [last EXCEPT !.op = "a.b", !.result = combine(last.arg.a, last.arg.b)]
               ELSE [last EXCEPT !.op = "(a.b).c", !.result = combine(last.result, last.arg.c)]
    /\ UNCHANGED <<maps, handles, origin, accepted, stack, ret, seen, lock, threads>>

\* b.combine(c), then a.combine(b.combine(c))
CombineRight ==
    /\ seen.op \in {"errors", "b.c"}
    /\ seen' = IF seen.op = "errors"
               THEN [seen EXCEPT !.op = "b.c", !.result = combine(seen.arg.b, seen.arg.c)]
               ELSE [seen EXCEPT !.op = "a.(b.c)", !.result = combine(seen.arg.a, seen.result)]
    /\ UNCHANGED <<maps, handles, origin, accepted, stack, ret, last, lock, threads>>

NextCombine == CombineLeft \/ CombineRight

SpecCombine == InitCombine /\ [][NextCombine]_vars

---------------------------------------------------------------------------
(* AsyncStringSchema: a string schema with validators that take an         *)
(* environment, run one after the other or by parallel workers.            *)

\* An AsyncValidator, as the values it rejects and the messages of the
\* errors it then returns; the environment is fixed.
AsyncValidator(rejects, messages) == [rejects |-> rejects, messages |-> messages]

AsyncStringSchema(sync_schema) ==
    [kind |-> "async_string", sync_schema |-> sync_schema, async_validators |-> <<>>]
async_custom(schema, validator) ==
    [schema EXCEPT !.async_validators = Append(@, validator)]

\* validate_async: a Failure holds at least one error.
validate_async(validator, value, path) ==
    IF value \in validator.rejects /\ validator.messages # <<>>
    THEN Failure([k \in 1..Len(validator.messages) |->
                     SchemaError(path, Msg(validator.messages[k], "", 0), "validation_error")])
    ELSE Success(Unit)

\* The loop of validate_with_env over self.async_validators.
RECURSIVE AsyncErrors(_, _, _)
AsyncErrors(validators, value, path) ==
    IF validators = <<>> THEN <<>>
    ELSE validate_async(Head(validators), value, path).errors
         \o AsyncErrors(Tail(validators), value, path)

\* AsyncStringSchema::validate_with_env
validate_with_env(schema, value, path) ==
    LET sync_result == StringValidate(schema.sync_schema, value, path)
    IN  IF ~sync_result.ok THEN sync_result
        ELSE LET all_errors == AsyncErrors(schema.async_validators, value, path)
             IN  IF all_errors = <<>> THEN Success(sync_result.value)
                 ELSE Failure(all_errors)

\* The parallel call after its sync validation: parts[i] is None until a
\* worker has run validator i, then Some of the Vec its closure returned;
\* done is the order in which the workers finished.
AsyncFrame(schema, value, path, validated) ==
    [schema |-> schema, value |-> value, path |-> path, context |-> NoContext,
     pc |-> 0, errors |-> <<>>, validated |-> validated,
     parts |-> [i \in 1..Len(schema.async_validators) |-> None], done |-> <<>>]

\* The Vecs of the workers joined in the order the workers finished.
RECURSIVE collect_as_finished(_, _)
collect_as_finished(parts, done) ==
    IF done = <<>> THEN <<>>
    ELSE parts[Head(done)][1] \o collect_as_finished(parts, Tail(done))

\* par_iter().flat_map(..).collect::<Vec<_>>(): the Vecs of the workers
\* joined in the order of the validators.
RECURSIVE collect(_, _)
collect(parts, done) ==
    IF parts = <<>> THEN <<>>
    ELSE Head(parts)[1] \o collect(Tail(parts), done)

ValidateWithEnv(schema, value) ==
    /\ Idle
    /\ last' = ApiCall("validate_with_env", 0, "", [schema |-> schema, value |-> value],
                       validate_with_env(schema, value, root))
    /\ UNCHANGED <<maps, handles, origin, accepted, stack, ret, seen, lock, threads>>

\* validate_with_env_parallel up to the start of the workers.
ValidateWithEnvParallel(schema, value) ==
    /\ Idle
    /\ LET sync_result == StringValidate(schema.sync_schema, value, root)
           call == ApiCall("validate_with_env_parallel", 0, "",
                           [schema |-> schema, value |-> value], sync_result)
       IN  IF ~sync_result.ok
           THEN /\ last' = call
                /\ UNCHANGED stack
           ELSE /\ last' = [call EXCEPT !.pending = TRUE]
                /\ stack' = <<AsyncFrame(schema, value, root, sync_result.value)>>
    /\ UNCHANGED <<maps, handles, origin, accepted, ret, seen, lock, threads>>

AsyncRunning == Running /\ Top.schema.kind = "async_string"

\* A worker runs the closure on validator i.
Worker(i) ==
    /\ AsyncRunning
    /\ i \in 1..Len(Top.parts)
    /\ Top.parts[i] = None
    /\ stack' = <<[Top EXCEPT
                     !.parts[i] = Some(validate_async(Top.schema.async_validators[i],
                                                      Top.value, Top.path).errors),
                     !.done = Append(@, i)]>>
    /\ UNCHANGED <<maps, handles, origin, accepted, ret, last, seen, lock, threads>>

\* All workers have finished: the collected errors decide the result.  The
\* order in which the workers finished is kept as history in last.before.
Collect ==
    /\ AsyncRunning
    /\ \A i \in 1..Len(Top.parts) : Top.parts[i] # None
    /\ LET all_errors == collect(Top.parts, Top.done)
       IN  last' = [last EXCEPT !.pending = FALSE,
                                !.before = Top.done,
                                !.result = IF all_errors = <<>> THEN Success(Top.validated)
                                           ELSE Failure(all_errors)]
    /\ stack' = <<>>
    /\ UNCHANGED <<maps, handles, origin, accepted, ret, seen, lock, threads>>

MaxValidators == 3

\* The values validated: two that trim to "abc" and one too short.
AsyncValues == {Str(abc), Str(<<" ">> \o abc), Str(<<"a">>)}

AlwaysFailValidator(message) == AsyncValidator(AsyncValues, <<message>>)
AlwaysPassValidator == AsyncValidator({}, <<>>)

AsyncValidators ==
    {AlwaysFailValidator("first error"), AlwaysPassValidator,
     AsyncValidator({Str(abc)}, <<"taken", "reserved">>)}

AsyncValidatorLists ==
    UNION {[1..n -> AsyncValidators] : n \in 0..MaxValidators}

RECURSIVE with_validators(_, _)
with_validators(schema, validators) ==
    IF validators = <<>> THEN schema
    ELSE with_validators(async_custom(schema, Head(validators)), Tail(validators))

AsyncSchemas ==
    {with_validators(AsyncStringSchema(trim(StringSchema(<<MinLength(3)>>))), validators) :
        validators \in AsyncValidatorLists}

NextAsync ==
    \/ \E schema \in AsyncSchemas, value \in AsyncValues : ValidateWithEnv(schema, value)
    \/ \E schema \in AsyncSchemas, value \in AsyncValues :
           ValidateWithEnvParallel(schema, value)
    \/ \E i \in 1..MaxValidators : Worker(i)
    \/ Collect

SpecAsync == Init /\ [][NextAsync]_vars

---------------------------------------------------------------------------
(* Combinators nested in combinators, with references between them.        *)

NestNames == {"A", "B", "C"}

NestSchemas(name) ==
    CASE name = "A" -> {AllOf(<<AnyOf(<<Optional(RefSchema("B")), integer>>),
                                OneOf(<<RefSchema("B"), word>>)>>),
                        Optional(OneOf(<<integer, word>>))}
      [] name = "B" -> {AllOf(<<Optional(AnyOf(<<integer, RefSchema("C")>>))>>), integer}
      [] name = "C" -> {word, OneOf(<<AllOf(<<Optional(word), nonempty>>)>>)}

NestDepths == {1, 2}

NestValues == {Num(1), Str(abc), Null}

StepNest == StepLeaf \/ StepRef \/ StepCombinator

NextNest ==
    \/ \E depth \in NestDepths : WithMaxDepth(1, depth)
    \/ \E name \in NestNames : \E schema \in NestSchemas(name) : Register(1, name, schema)
    \/ \E name \in NestNames, value \in NestValues : RegistryValidate(1, name, value)
    \/ StepNest

SpecNest == Init /\ [][NextNest]_vars

---------------------------------------------------------------------------
(* Schema trees without Ref nodes, validated without and with a context.   *)

PlainSchemas ==
    {tag,
     ArraySchema(integer, <<Unique>>),
     ArraySchema(OneOf(<<int10, word>>), <<MinLength(3)>>),
     AllOf(<<ArraySchema(int10, <<>>), Optional(ArraySchema(integer, <<Unique>>))>>),
     ObjectSchema(<<field("a", AnyOf(<<int10, word>>)),
                    optional("m", ArraySchema(tag, <<>>))>>, Deny),
     ArraySchema(Item, <<UniqueBy("id")>>)}

PlainValues ==
    {Num(5), Str(abc), Null,
     Arr(<<Num(1), Num(2), Num(1), Num(2)>>),
     Arr(<<Num(42), Str(abc)>>),
     Arr(<<Obj([id |-> Num(1)]), Obj([id |-> Num(1)])>>),
     Obj([a |-> Num(42), m |-> Arr(<<Str(<<" ", "A">>), Num(1)>>)]),
     Obj([a |-> Null, x |-> Num(1)])}

\* Contexts on the registry of handle 1: a new one, one at its depth limit,
\* one beyond it.
PlainContexts ==
    {ValidationContext_new(1, DefaultMaxDepth),
     increment_depth(ValidationContext_new(1, 1)),
     increment_depth(ValidationContext_new(1, 0))}

StepPlain == StepLeaf \/ StepArray \/ StepCombinator \/ StepObject

NextPlain ==
    \/ \E schema \in PlainSchemas, value \in PlainValues : SchemaValidate(schema, value)
    \/ \E context \in PlainContexts : SchemaValidateWithContext(context)
    \/ StepPlain

SpecPlain == Init /\ [][NextPlain]_vars

---------------------------------------------------------------------------
(* Threads that share the registry of handle 1, with the steps of the lock: *)
(* thread 1 validates, the others register, get and validate_refs.  A call *)
(* of read() or write() is a step of its own, which waits for the lock.    *)

In(t, pc) == threads[t].pc = pc
At(t, pc, op) == threads[t].pc = pc /\ threads[t].op = op

\* The calls the threads 1..n have made.
RECURSIVE CallsMade(_)
CallsMade(n) == IF n = 0 THEN 0 ELSE threads[n].calls + CallsMade(n - 1)

\* Thread t starts a call and reaches the read() or write() of the lock.
Begin(t, pc, op, name, arg) ==
    /\ In(t, "idle")
    /\ CallsMade(MaxThreads) < MaxCalls
    /\ threads' = [threads EXCEPT ![t] = [pc |-> pc, op |-> op, name |-> name, arg |-> arg,
                                          calls |-> @.calls + 1]]

\* Thread t goes on to pc; at "idle" its call has returned.
Goto(t, pc) ==
    threads' = [threads EXCEPT ![t] = IF pc = "idle"
                                      THEN [NoCall EXCEPT !.calls = threads[t].calls]
                                      ELSE [threads[t] EXCEPT !.pc = pc]]

\* register up to `self.schemas.write()`
CallRegister(t, name, schema) ==
    /\ t # 1
    /\ Begin(t, "write", "register", name, schema)
    /\ lock' = park(lock, t)
    /\ UNCHANGED <<maps, handles, origin, accepted, stack, ret, last, seen>>

\* get up to `self.schemas.read()`
CallGet(t, name) ==
    /\ t # 1
    /\ Begin(t, "read", "get", name, Null)
    /\ UNCHANGED <<maps, handles, origin, accepted, stack, ret, last, seen, lock>>

\* validate_refs up to `self.schemas.read()`
CallValidateRefs(t) ==
    /\ t # 1
    /\ Begin(t, "read", "validate_refs", "", Null)
    /\ UNCHANGED <<maps, handles, origin, accepted, stack, ret, last, seen, lock>>

\* validate up to the read() of its get
CallValidate(name, value) ==
    /\ Idle
    /\ Begin(1, "read", "validate", name, value)
    /\ UNCHANGED <<maps, handles, origin, accepted, stack, ret, last, seen, lock>>

\* write() returns the guard.
AcquireWrite(t) ==
    /\ In(t, "write")
    /\ can_write(lock)
    /\ lock' = write(lock, t)
    /\ Goto(t, "writing")
    /\ UNCHANGED <<maps, handles, origin, accepted, stack, ret, last, seen>>

\* read() returns the guard.
AcquireRead(t) ==
    /\ In(t, "read")
    /\ can_read(lock)
    /\ lock' = read(lock, t)
    /\ Goto(t, "reading")
    /\ UNCHANGED <<maps, handles, origin, accepted, stack, ret, last, seen>>

\* register from contains_key to its return.
RegisterReturn(t) ==
    /\ At(t, "writing", "register")
    /\ LET r == register(MapOf(1), threads[t].name, threads[t].arg)
       IN  /\ maps' = [maps EXCEPT ![handles[1].schemas] = r.schemas]
           /\ accepted' = IF r.result.is_ok
                          THEN accepted \cup {[handle |-> 1, name |-> threads[t].name,
                                               schema |-> threads[t].arg]}
                          ELSE accepted
    /\ lock' = drop_write(lock, t)
    /\ Goto(t, "idle")
    /\ UNCHANGED <<handles, origin, stack, ret, last, seen>>

\* get from the lookup to its return; what it returns goes to the caller.
GetReturn(t) ==
    /\ At(t, "reading", "get")
    /\ lock' = get_guard(lock, t)
    /\ Goto(t, "idle")
    /\ UNCHANGED <<maps, handles, origin, accepted, stack, ret, last, seen>>

\* validate_refs under its guard: the collect_refs calls and the lookups.
CollectRefs(t) ==
    /\ At(t, "reading", "validate_refs")
    /\ Goto(t, "collected")
    /\ UNCHANGED <<maps, handles, origin, accepted, stack, ret, last, seen, lock>>

\* validate_refs returns.
ValidateRefsReturn(t) ==
    /\ In(t, "collected")
    /\ lock' = drop_read(lock, t)
    /\ Goto(t, "idle")
    /\ UNCHANGED <<maps, handles, origin, accepted, stack, ret, last, seen>>

\* validate from the lookup of its get to the call of the schema.
ValidateGet ==
    /\ At(1, "reading", "validate")
    /\ Idle
    /\ validate(1, threads[1].name, threads[1].arg)
    /\ lock' = get_guard(lock, 1)
    /\ Goto(1, IF get(MapOf(1), threads[1].name) = None THEN "idle" ELSE "running")

\* The Ref on top is past its checks and has to look its name up.
Looking ==
    /\ Fresh
    /\ Top.schema.kind = "ref"
    /\ Top.context.has
    /\ Top.context.depth < Top.context.max_depth

\* RefSchema::validate_with_context up to the read() of get_schema.
RefRead ==
    /\ In(1, "running")
    /\ Looking
    /\ Goto(1, "read")
    /\ UNCHANGED <<maps, handles, origin, accepted, stack, ret, last, seen, lock>>

\* RefSchema::validate_with_context from the lookup to the call of the
\* resolved schema.
RefGet ==
    /\ In(1, "reading")
    /\ Looking
    /\ LET r == ref_validate_with_context(Top.schema.name, Top.path, Top.context,
                     get(maps[Top.context.registry], Top.schema.name))
       IN  IF r.done
           THEN Returns(r.result)
           ELSE Calls([Top EXCEPT !.pc = 1], Frame(r.schema, Top.value, Top.path, r.context))
    /\ lock' = get_guard(lock, 1)
    /\ Goto(1, "running")

\* The steps of a Ref that look nothing up.
RefElse == ~Looking /\ StepRef

\* validate returns to its caller.
ValidateReturn ==
    /\ In(1, "running")
    /\ Idle
    /\ Goto(1, "idle")
    /\ UNCHANGED <<maps, handles, origin, accepted, stack, ret, last, seen, lock>>

LockNames == {"A", "B"}

\* A refers to B twice; B is an integer or refers to C, which nobody
\* registers.
LockSchemas(name) ==
    CASE name = "A" -> {AllOf(<<RefSchema("B"), RefSchema("B")>>)}
      [] name = "B" -> {integer, RefSchema("C")}

\* The steps of thread 1 inside validate.
StepValidate ==
    \/ AcquireRead(1)
    \/ ValidateGet
    \/ RefRead
    \/ RefGet
    \/ RefElse
    \/ StepLeaf
    \/ StepCombinator
    \/ ValidateReturn

\* The steps of another thread inside its call.
StepThread(t) ==
    \/ AcquireWrite(t)
    \/ RegisterReturn(t)
    \/ AcquireRead(t)
    \/ GetReturn(t)
    \/ CollectRefs(t)
    \/ ValidateRefsReturn(t)

NextLock ==
    \/ \E t \in Threads, name \in LockNames : \E schema \in LockSchemas(name) :
           CallRegister(t, name, schema)
    \/ \E t \in Threads, name \in LockNames : CallGet(t, name)
    \/ \E t \in Threads : CallValidateRefs(t)
    \/ \E name \in LockNames : CallValidate(name, Num(1))
    \/ StepValidate
    \/ \E t \in Threads \ {1} : StepThread(t)

SpecLock == Init /\ [][NextLock]_vars

\* Every thread is scheduled: a thread that can take a step of its call
\* takes one.
FairSpecLock ==
    /\ SpecLock
    /\ WF_vars(StepValidate)
    /\ \A t \in Threads \ {1} : WF_vars(StepThread(t))

---------------------------------------------------------------------------
(* Properties of the reference depth.                                      *)

\* The codes of the errors of a Validation.
Codes(r) == {r.errors[k].code : k \in 1..Len(r.errors)}

\* What the call that was on top has returned, read in the state after the
\* step: to its caller, or to the caller of SchemaRegistry::validate.
Returned(s, r, l) ==
    IF s # <<>> THEN r[1]
    ELSE IF l.op = "validate" THEN l.result.v ELSE l.result

\* The Ref nodes followed on the call path to the i-th call of the stack.
Hops(i) == Cardinality({j \in 1..(i - 1) : stack[j].schema.kind = "ref"})

\* The call on top is a Ref node entered with a context at or past the limit.
RefAtLimit ==
    /\ Fresh
    /\ Top.schema.kind = "ref"
    /\ Top.context.has
    /\ Top.context.depth >= Top.context.max_depth

\* C1: a Ref node validated with a context whose depth is greater than or
\* equal to max_depth returns, in that very step and so before any lookup of
\* its name, a Failure holding exactly one error, with code
\* max_depth_exceeded and the path of the call; this also when its name is
\* not registered.
C1_DepthCheckFirst ==
    [][RefAtLimit =>
          /\ stack' = SubSeq(stack, 1, Len(stack) - 1)
          /\ LET r == Returned(stack', ret', last')
             IN  /\ ~r.ok
                 /\ Len(r.errors) = 1
                 /\ r.errors[1].code = "max_depth_exceeded"
                 /\ r.errors[1].path = Top.path]_vars

\* A validate of a schema that is a Ref to an unregistered name, made with
\* max_depth 0, has returned max_depth_exceeded.
C1_Witness ==
    /\ last.op = "validate"
    /\ ~last.pending
    /\ last.result.is_ok
    /\ handles[1].max_depth = 0
    /\ MapOf(1)[last.name].kind = "ref"
    /\ ~contains_key(MapOf(1), MapOf(1)[last.name].name)
    /\ Codes(last.result.v) = {"max_depth_exceeded"}

\* C2: during a Registry.validate run every validator call carries a context
\* whose depth is the number of Ref nodes followed on the call path from the
\* root, whatever object fields, array elements and combinator components
\* the path descends into.
C2_DepthIsHops ==
    \A i \in 1..Len(stack) :
        /\ stack[i].context.has
        /\ stack[i].context.depth = Hops(i)

\* C3: a run of Registry.validate follows at most max_depth Ref nodes on any
\* call path, and it comes to its end, also when the references of the
\* registry form a cycle.
C3_Terminates ==
    /\ [](Running => Hops(Len(stack)) <= handles[last.handle].max_depth)
    /\ (Running ~> Idle)

\* A run over the three-way cycle A -> B -> C -> A, made with the default
\* max_depth, has come to its end on the depth limit.
C3_Witness ==
    /\ last.op = "validate"
    /\ ~last.pending
    /\ last.result.is_ok
    /\ handles[1].max_depth = DefaultMaxDepth
    /\ DOMAIN MapOf(1) = {"A", "B", "C"}
    /\ MapOf(1)["A"] = RefSchema("B")
    /\ MapOf(1)["B"] = RefSchema("C")
    /\ MapOf(1)["C"] = RefSchema("A")
    /\ "max_depth_exceeded" \in Codes(last.result.v)

\* The validate call recorded in last has returned Ok(result).
Validated(name, value) ==
    /\ last.op = "validate"
    /\ ~last.pending
    /\ last.name = name
    /\ last.arg = value
    /\ last.result.is_ok

\* C4: with Node { value: integer, next (optional): Ref("Node") } registered
\* in a registry with max_depth 5, validate("Node", v) fails with
\* max_depth_exceeded for a chain nested 20 deep and succeeds for a chain
\* nested 2 deep.
C4_NodeDepthLimit ==
    handles[1].max_depth = NodeDepth =>
        /\ Validated("Node", chain(20)) => "max_depth_exceeded" \in Codes(last.result.v)
        /\ Validated("Node", chain(2)) => last.result.v.ok

\* C5: a Ref that is the schema of an object field is resolved against the
\* registry in a Registry.validate run: with UserId registered, User
\* { id: Ref("UserId") } accepts an object exactly when its id satisfies
\* UserId, fails with UserId's errors otherwise, and never reports
\* missing_registry.
C5_RefFieldResolved ==
    \A value \in NodeValues :
        (/\ Validated("User", value)
         /\ value.t = "object"
         /\ "id" \in DOMAIN value.m
         /\ contains_key(MapOf(1), "UserId"))
        => LET r == IntegerValidate(UserId, value.m["id"], push_field(root, "id"))
           IN  /\ last.result.v.ok = r.ok
               /\ last.result.v.errors = r.errors
               /\ "missing_registry" \notin Codes(last.result.v)

---------------------------------------------------------------------------
(* Properties of the registry.                                             *)

\* The step is a call of register: it starts idle and records the call.
RegisterStep == Idle /\ last'.op = "register"

\* The handles that share the origin of handle h: h and its clones.
Family(h) == {g \in Handles : origin[g] = origin[h]}

\* C6: register(name, schema) on a name already registered returns
\* Err(DuplicateName(name)) and leaves the registry as it was: the same names
\* and, through every handle, the same answer of get(name).
C6_DuplicateRejected ==
    [][(RegisterStep /\ contains_key(MapOf(last'.handle), last'.name)) =>
          /\ ~last'.result.is_ok
          /\ last'.result.v = DuplicateName(last'.name)
          /\ maps' = maps
          /\ \A h \in Handles :
                /\ DOMAIN maps'[handles'[h].schemas] = DOMAIN MapOf(h)
                /\ get(maps'[handles'[h].schemas], last'.name) = get(MapOf(h), last'.name)]_vars

\* A register of another schema under a registered name has been rejected.
C6_Witness ==
    /\ last.op = "register"
    /\ ~last.result.is_ok
    /\ contains_key(MapOf(last.handle), last.name)
    /\ MapOf(last.handle)[last.name] # last.arg

\* C7: once register(name, s) has returned Ok, get(name) returns s in every
\* later state, through the handle and through its clones; no step removes
\* or replaces an entry of a map.
C7_EntriesPermanent ==
    /\ [](\A a \in accepted : \A h \in Family(a.handle) :
             /\ get(MapOf(h), a.name) = Some(a.schema)
             /\ (last.op = "get" /\ last.handle = h /\ last.name = a.name)
                => last.result = Some(a.schema))
    /\ [][\A m \in 1..Len(maps) : \A name \in DOMAIN maps[m] :
             /\ m <= Len(maps')
             /\ contains_key(maps'[m], name)
             /\ maps'[m][name] = maps[m][name]]_vars

\* A get through a clone has returned a schema registered through another
\* handle, after a second name was registered.
C7_Witness ==
    /\ last.op = "get"
    /\ last.result # None
    /\ Cardinality(DOMAIN MapOf(last.handle)) = 2
    /\ \E a \in accepted :
          /\ a.name = last.name
          /\ a.handle # last.handle
          /\ last.handle \in Family(a.handle)
          /\ last.result = Some(a.schema)

\* C8: a handle and its clones share one map: a register that returns Ok
\* through one of them makes get(name) return the schema through each, and a
\* name registered through one is rejected as DuplicateName through the other.
C8_ClonesShare ==
    [][RegisterStep =>
          \A h \in Family(last'.handle) :
             /\ last'.result.is_ok
                => get(maps'[handles'[h].schemas], last'.name) = Some(last'.arg)
             /\ contains_key(MapOf(h), last'.name)
                => /\ ~last'.result.is_ok
                   /\ last'.result.v = DuplicateName(last'.name)]_vars

\* A register through a clone has been rejected for a name registered
\* through the handle it was cloned from.
C8_Witness ==
    /\ last.op = "register"
    /\ ~last.result.is_ok
    /\ last.handle # origin[last.handle]
    /\ \E a \in accepted : a.handle = origin[last.handle] /\ a.name = last.name

\* The step is a call of validate.
ValidateStep == Idle /\ last'.op = "validate"

\* C9: validate(name, value) returns Err(SchemaNotFound(name)) exactly when
\* name is not registered; otherwise it calls the registered schema on the
\* value at the root path with a new context of depth 0 and the max_depth of
\* the handle, which is 100 until with_max_depth sets it, and it returns Ok
\* with what that call returns.
C9_ValidateContext ==
    /\ \A h \in Handles : handles[h].max_depth = DefaultMaxDepth
    /\ [](last.op = "validate" /\ ~last.pending
          => (last.result.is_ok <=> contains_key(MapOf(last.handle), last.name)))
    /\ [][/\ ValidateStep =>
               IF ~contains_key(MapOf(last'.handle), last'.name)
               THEN /\ ~last'.pending
                    /\ last'.result = Err(SchemaNotFound(last'.name))
                    /\ stack' = <<>>
               ELSE /\ last'.pending
                    /\ Len(stack') = 1
                    /\ stack'[1].schema = MapOf(last'.handle)[last'.name]
                    /\ stack'[1].value = last'.arg
                    /\ stack'[1].path = root
                    /\ stack'[1].context =
                           [has |-> TRUE, registry |-> handles[last'.handle].schemas,
                            depth |-> 0, max_depth |-> handles[last'.handle].max_depth]
          /\ (Len(stack) = 1 /\ stack' = <<>>) =>
               /\ ~last'.pending
               /\ last'.result.is_ok
               /\ Top.schema.kind = "integer"
                  => last'.result.v = IntegerValidate(Top.schema, last'.arg, root)
          /\ handles' # handles => last'.op \in {"new", "clone", "with_max_depth"}]_vars

\* A validate through a handle set to max_depth 2 has called the schema.
C9_Witness ==
    /\ last.op = "validate"
    /\ last.pending
    /\ Len(stack) = 1
    /\ Fresh
    /\ handles[last.handle].max_depth = 2
    /\ Top.context.depth = 0
    /\ Top.context.max_depth = 2

\* The lists validate_refs can return in this state, one for each order the
\* map can iterate in.
RefsResults == {validate_refs(MapOf(1), order) : order \in Orders(DOMAIN MapOf(1))}

\* C10: the list validate_refs returns is sorted ascending, holds no name
\* twice and only names that are not registered, and it is one and the same
\* list whatever the order the map holds its entries in.
C10_RefsSorted ==
    /\ Cardinality(RefsResults) = 1
    /\ \A r \in RefsResults :
          /\ \A i \in 1..(Len(r) - 1) : StrLess(r[i], r[i + 1])
          /\ \A i \in 1..Len(r) : ~contains_key(MapOf(1), r[i])
    /\ last.op = "validate_refs" => last.result \in RefsResults

\* validate_refs has returned two names of which one is referred to by both
\* registered schemas and which are collected in descending order.
C10_Witness ==
    /\ last.op = "validate_refs"
    /\ DOMAIN MapOf(1) = {"A", "B"}
    /\ MapOf(1)["A"] = AllOf(<<RefSchema("UserId"), RefSchema("C")>>)
    /\ MapOf(1)["B"] = RefSchema("UserId")
    /\ last.result = <<"C", "UserId">>

---------------------------------------------------------------------------
(* Properties of the references a registry holds.                          *)

\* The names of the Ref nodes of a schema tree: the Ref itself, the fields
\* and the additional-properties schema of an object, the item schema of an
\* array, the components of a combinator.
RECURSIVE RefNames(_)
RefNames(schema) ==
    CASE schema.kind = "ref" -> {schema.name}
      [] schema.kind = "array" -> RefNames(schema.item_schema)
      [] IsCombinator(schema) ->
           UNION {RefNames(schema.validators[k]) : k \in 1..Len(schema.validators)}
      [] schema.kind = "object" ->
           UNION ({RefNames(schema.fields[k].schema) : k \in 1..Len(schema.fields)}
                  \cup {IF schema.additional_properties.policy = "Validate"
                        THEN RefNames(schema.additional_properties.schema)
                        ELSE {}})
      [] OTHER -> {}

\* C11: validate_refs reports every unresolved reference: the name of each
\* Ref node of a registered schema, be it the schema itself, an object
\* field, an array item schema or a combinator component, is in the list
\* when it is not registered; so with User { id: Ref("UserId") } registered
\* alone the list is ["UserId"], and with UserId registered too it is [].
C11_RefsComplete ==
    last.op = "validate_refs" =>
        /\ \A name \in DOMAIN MapOf(1) : \A ref \in RefNames(MapOf(1)[name]) :
              ~contains_key(MapOf(1), ref) => \E i \in 1..Len(last.result) : last.result[i] = ref
        /\ (DOMAIN MapOf(1) = {"User"}) => last.result = <<"UserId">>
        /\ (DOMAIN MapOf(1) = {"User", "UserId"}) => last.result = <<>>

---------------------------------------------------------------------------
(* Properties of the errors a validation returns.                          *)

\* The call on top is a Ref node entered without a context.
RefWithoutContext ==
    /\ Fresh
    /\ Top.schema.kind = "ref"
    /\ ~Top.context.has

\* C12: a Ref node validated without a context fails, for every value and
\* every path, with exactly one error, with code missing_registry and the
\* path of the call, whatever schemas the registries hold.
C12_MissingRegistry ==
    [][RefWithoutContext =>
          /\ stack' = SubSeq(stack, 1, Len(stack) - 1)
          /\ LET r == Returned(stack', ret', last')
             IN  /\ ~r.ok
                 /\ Len(r.errors) = 1
                 /\ r.errors[1].code = "missing_registry"
                 /\ r.errors[1].path = Top.path]_vars

\* A Ref to a name the registry holds, under an array validated on its own,
\* has just returned missing_registry for the item at index 1.
C12_Witness ==
    /\ last.op = "schema_validate"
    /\ contains_key(MapOf(1), "A")
    /\ Len(stack) = 1
    /\ Top.schema = ArraySchema(RefSchema("A"), <<>>)
    /\ Top.pc = 2
    /\ ret # <<>>
    /\ ~ret[1].ok
    /\ Codes(ret[1]) = {"missing_registry"}
    /\ ret[1].errors[1].path = push_index(root, 1)

\* The call on top is a Ref node entered with a context below its limit,
\* whose name the registry of the context does not hold.
RefUnresolved ==
    /\ Fresh
    /\ Top.schema.kind = "ref"
    /\ Top.context.has
    /\ Top.context.depth < Top.context.max_depth
    /\ ~contains_key(maps[Top.context.registry], Top.schema.name)

\* The unresolved Ref on top is component k of the AllOf that called it.
UnderAllOf(k) ==
    /\ Len(stack) >= 2
    /\ stack[Len(stack) - 1].schema.kind = "all_of"
    /\ stack[Len(stack) - 1].pc = k

\* C13: a Ref node validated with a context whose depth is below max_depth
\* and whose name is not registered returns a Failure holding exactly one
\* error, with code missing_reference and the path of the call; the
\* validation around it goes on: an enclosing AllOf that has a later
\* component is still running after the Ref has returned, and its result
\* then holds the Ref's error next to the errors of its other components.
C13_MissingReference ==
    /\ [][RefUnresolved =>
            /\ stack' = SubSeq(stack, 1, Len(stack) - 1)
            /\ LET r == Returned(stack', ret', last')
               IN  /\ ~r.ok
                   /\ Len(r.errors) = 1
                   /\ r.errors[1].code = "missing_reference"
                   /\ r.errors[1].path = Top.path
            /\ \A k \in 1..2 :
                   (UnderAllOf(k) /\ k < Len(stack[Len(stack) - 1].schema.validators))
                       => stack' # <<>>]_vars
    /\ [][(Resumed /\ Top.schema = AllOf(<<RefSchema("B"), int10, word>>)
             /\ Top.pc = 3 /\ Top.context.has /\ Top.value = Num(5))
            => LET r == Returned(stack', ret', last')
               IN  /\ ~r.ok
                   /\ [k \in 1..Len(r.errors) |-> r.errors[k].code]
                        = <<"missing_reference", "min_value", "invalid_type">>]_vars

\* A validate of "A", registered as all_of [Ref("B"), int10, word] while no
\* "B" is registered, has returned the error of the Ref and the errors of
\* the two components after it.
C13_Witness ==
    /\ last.op = "validate"
    /\ ~last.pending
    /\ last.result.is_ok
    /\ MapOf(1)["A"] = AllOf(<<RefSchema("B"), int10, word>>)
    /\ last.arg = Num(5)
    /\ Len(last.result.v.errors) = 3
    /\ last.result.v.errors[1].code = "missing_reference"

\* The errors of the failures among results, in order.
RECURSIVE FailureErrors(_)
FailureErrors(results) ==
    IF results = <<>> THEN <<>>
    ELSE (IF Head(results).ok THEN <<>> ELSE Head(results).errors)
         \o FailureErrors(Tail(results))

\* What a validator call returns when no other thread acts while it runs:
\* every lookup it makes finds the same schemas.  (Leaves, references and
\* combinators.)
RECURSIVE Alone(_, _, _, _, _)
Alone(schema, value, path, context, schemas) ==
    LET n == IF IsCombinator(schema) THEN Len(schema.validators) ELSE 0
        results == [k \in 1..n |-> Alone(schema.validators[k], value, path, context, schemas)]
        passed == {k \in 1..n : results[k].ok}
    IN  CASE schema.kind = "integer" -> IntegerValidate(schema, value, path)
          [] schema.kind = "string" -> StringValidate(schema, value, path)
          [] schema.kind = "ref" ->
               IF ~context.has THEN missing_registry(schema.name, path)
               ELSE LET r == ref_validate_with_context(schema.name, path, context,
                                                       get(schemas, schema.name))
                    IN  IF r.done THEN r.result
                        ELSE Alone(r.schema, value, path, r.context, schemas)
          [] schema.kind = "optional" ->
               IF value = Null THEN Success(Null) ELSE results[1]
          [] schema.kind = "one_of" -> OneOfResult(results, path)
          [] schema.kind = "any_of" ->
               IF passed = {} THEN any_of_none_matched(n, path)
               ELSE Success(results[CHOOSE k \in passed : \A j \in passed : k <= j].value)
          [] schema.kind = "all_of" ->
               IF FailureErrors(results) # <<>> THEN Failure(FailureErrors(results))
               ELSE Success(IF n = 0 THEN value ELSE results[n].value)

\* What validate(name, value) returns when run alone on these schemas.
AloneValidate(schemas, max_depth, name, value) ==
    IF get(schemas, name) = None THEN Err(SchemaNotFound(name))
    ELSE Ok(Alone(get(schemas, name)[1], value, root,
                  ValidationContext_new(0, max_depth), schemas))

\* C14: while another thread registers new names on the shared registry,
\* every validate of a registered schema returns what it returns when run
\* alone (on the schemas the registry held when it was called, or on those it
\* holds now), and every get(name) returns nothing or the schema that was
\* registered under name.
C14_Isolated ==
    /\ (last.op = "validate" /\ ~last.pending /\ last.result.is_ok) =>
           last.result \in
               {AloneValidate(last.before, handles[1].max_depth, last.name, last.arg),
                AloneValidate(MapOf(1), handles[1].max_depth, last.name, last.arg)}
    /\ (seen.op = "get" /\ seen.result # None) =>
           /\ Len(seen.result) = 1
           /\ [handle |-> 1, name |-> seen.name, schema |-> seen.result[1]] \in accepted

\* A OneOf call on top to which its last component has just returned.
OneOfLast ==
    /\ Resumed
    /\ Top.schema.kind = "one_of"
    /\ Top.pc = Len(Top.schema.validators)

\* The results of all components of the OneOf call on top, in order.
OneOfResults == Append(Top.validated, ret[1])

\* C15: OneOf runs every component against the value and counts the
\* successes: with exactly one the result is Success with that component's
\* value, with none a Failure holding exactly one error, with code
\* one_of_none_matched, with two or more a Failure holding exactly one
\* error, with code one_of_multiple_matched, also when the components that
\* matched returned equal values; no error of a component is in the result.
C15_OneOf ==
    /\ [][(Resumed /\ Top.schema.kind = "one_of" /\ Top.pc < Len(Top.schema.validators))
            => /\ Len(stack') = Len(stack) + 1
               /\ stack'[Len(stack')].schema = Top.schema.validators[Top.pc + 1]
               /\ stack'[Len(stack')].value = Top.value]_vars
    /\ [][OneOfLast =>
            LET passed == {k \in 1..Len(OneOfResults) : OneOfResults[k].ok}
                r == Returned(stack', ret', last')
            IN  /\ Len(OneOfResults) = Len(Top.schema.validators)
                /\ stack' = SubSeq(stack, 1, Len(stack) - 1)
                /\ Cardinality(passed) = 1 =>
                       /\ r.ok
                       /\ \A k \in passed : r.value = OneOfResults[k].value
                /\ Cardinality(passed) = 0 =>
                       /\ ~r.ok
                       /\ Len(r.errors) = 1
                       /\ r.errors[1].code = "one_of_none_matched"
                /\ Cardinality(passed) >= 2 =>
                       /\ ~r.ok
                       /\ Len(r.errors) = 1
                       /\ r.errors[1].code = "one_of_multiple_matched"
                /\ ~r.ok => \A k \in 1..Len(OneOfResults) :
                       \A i \in 1..Len(OneOfResults[k].errors) :
                           OneOfResults[k].errors[i] # r.errors[1]]_vars

\* one_of [word, nonempty] validated on "abc", which both accept with the
\* same value, has returned one_of_multiple_matched.
C15_Witness ==
    /\ last.op = "schema_validate"
    /\ ~last.pending
    /\ last.arg.schema = OneOf(<<word, nonempty>>)
    /\ last.arg.value = Str(abc)
    /\ Codes(last.result) = {"one_of_multiple_matched"}
    /\ Len(last.result.errors) = 1

\* An AnyOf call on top to which component Top.pc has just returned.
AnyOfResumed == Resumed /\ Top.schema.kind = "any_of"

\* C16: AnyOf runs its components in declared order and returns Success
\* with the value of the first component that succeeds, in the step that
\* receives it and so without running any later component; only when every
\* component has failed does it return a Failure, which holds exactly one
\* error, with code any_of_none_matched, and no error of a component.
C16_AnyOf ==
    /\ [][(Fresh /\ Top.schema.kind = "any_of" /\ Top.schema.validators # <<>>)
            => /\ Len(stack') = Len(stack) + 1
               /\ stack'[Len(stack')].schema = Top.schema.validators[1]]_vars
    /\ [][AnyOfResumed =>
            LET r == ret[1]
                n == Len(Top.schema.validators)
            IN  IF r.ok
                THEN /\ stack' = SubSeq(stack, 1, Len(stack) - 1)
                     /\ Returned(stack', ret', last') = Success(r.value)
                ELSE IF Top.pc < n
                THEN /\ Len(stack') = Len(stack) + 1
                     /\ stack'[Len(stack')].schema = Top.schema.validators[Top.pc + 1]
                     /\ stack'[Len(stack')].value = Top.value
                     /\ stack'[Len(stack)].pc = Top.pc + 1
                ELSE /\ stack' = SubSeq(stack, 1, Len(stack) - 1)
                     /\ LET out == Returned(stack', ret', last')
                        IN  /\ ~out.ok
                            /\ Len(out.errors) = 1
                            /\ out.errors[1].code = "any_of_none_matched"
                            /\ out.errors[1].path = Top.path
                            /\ \A i \in 1..Len(r.errors) : r.errors[i] # out.errors[1]]_vars

\* any_of [int10, word, nonempty] validated on "abc" has just received the
\* success of its second component, the third not yet called.
C16_Witness ==
    /\ AnyOfResumed
    /\ Top.schema = AnyOf(<<int10, word, nonempty>>)
    /\ Top.value = Str(abc)
    /\ Top.pc = 2
    /\ ret[1].ok

\* An AllOf call on top to which component Top.pc has just returned.
AllOfResumed == Resumed /\ Top.schema.kind = "all_of"

\* What each component of the call on top returns for the call's value.
ComponentResults ==
    [k \in 1..Len(Top.schema.validators) |->
        Alone(Top.schema.validators[k], Top.value, Top.path, Top.context,
              IF Top.context.has THEN maps[Top.context.registry] ELSE <<>>)]

\* C17: AllOf runs every component, whether or not earlier ones failed; when
\* at least one fails the result is a Failure whose errors are the errors of
\* all failing components, concatenated in component order; when all succeed
\* the result is Success with the value the last component returned.
C17_AllOf ==
    /\ [][(AllOfResumed /\ Top.pc < Len(Top.schema.validators))
            => /\ Len(stack') = Len(stack) + 1
               /\ stack'[Len(stack')].schema = Top.schema.validators[Top.pc + 1]
               /\ stack'[Len(stack')].value = Top.value
               /\ stack'[Len(stack)].pc = Top.pc + 1]_vars
    /\ [][(AllOfResumed /\ Top.pc = Len(Top.schema.validators))
            => /\ stack' = SubSeq(stack, 1, Len(stack) - 1)
               /\ ret[1] = ComponentResults[Top.pc]
               /\ Returned(stack', ret', last') =
                      IF \E k \in 1..Top.pc : ~ComponentResults[k].ok
                      THEN Failure(FailureErrors(ComponentResults))
                      ELSE Success(ret[1].value)]_vars

\* all_of [Ref("B"), int10, word] validated on 5 without a registry has
\* returned the errors of its three components, in their order.
C17_Witness ==
    /\ last.op = "schema_validate"
    /\ ~last.pending
    /\ last.arg.schema = AllOf(<<RefSchema("B"), int10, word>>)
    /\ last.arg.value = Num(5)
    /\ ~last.result.ok
    /\ [k \in 1..Len(last.result.errors) |-> last.result.errors[k].code]
         = <<"missing_registry", "min_value", "invalid_type">>

\* The call on top is a leaf schema entered with a value of another JSON
\* type than the schema's (for an integer schema, also a number that is no
\* integer).
LeafWrongType ==
    /\ Fresh
    /\ \/ /\ Top.schema.kind = "integer"
          /\ (Top.value.t # "number" \/ "f" \in DOMAIN Top.value)
       \/ /\ Top.schema.kind = "string"
          /\ Top.value.t # "string"

\* C18: when the value has the wrong JSON type for a leaf schema (String or
\* Integer), validate returns a Failure holding exactly one error, with code
\* invalid_type and the path of the call: no constraint and no custom
\* validator adds an error, however many the schema has.
C18_TypeFirst ==
    [][LeafWrongType =>
          /\ stack' = SubSeq(stack, 1, Len(stack) - 1)
          /\ LET r == Returned(stack', ret', last')
             IN  /\ ~r.ok
                 /\ Len(r.errors) = 1
                 /\ r.errors[1].code = "invalid_type"
                 /\ r.errors[1].path = Top.path]_vars

\* An integer schema with min(10) and positive, validated on "abc", has
\* returned one invalid_type error; so has a string schema with three
\* constraints and two custom validators, validated on 0.
C18_Witness ==
    /\ last.op = "schema_validate"
    /\ ~last.pending
    /\ \/ last.arg.schema = int10 /\ last.arg.value = Str(abc)
       \/ last.arg.schema = long /\ last.arg.value = Num(0)
    /\ Len(last.result.errors) = 1
    /\ Codes(last.result) = {"invalid_type"}

\* The call on top is a leaf schema entered with a value that passes its
\* type check: an i64 for an integer schema, a string for a string schema.
LeafRightType ==
    /\ Fresh
    /\ \/ Top.schema.kind = "integer" /\ Top.value.t = "number" /\ "n" \in DOMAIN Top.value
       \/ Top.schema.kind = "string" /\ Top.value.t = "string"

\* The value the constraints of the leaf on top are about: the integer, or
\* the string as the schema's transformations leave it.
Constrained ==
    IF Top.schema.kind = "integer" THEN Top.value.n
    ELSE Transformed(Top.schema.transforms, Top.value.s)

\* What each constraint asks of a value, and the code of its error.
Violates(constraint, v) ==
    CASE constraint.c = "Min" -> v < constraint.value
      [] constraint.c = "Max" -> v > constraint.value
      [] constraint.c = "Positive" -> ~(v > 0)
      [] constraint.c = "NonNegative" -> ~(v >= 0)
      [] constraint.c = "Negative" -> ~(v < 0)
      [] constraint.c = "MinLength" -> Len(v) < constraint.value
      [] constraint.c = "MaxLength" -> Len(v) > constraint.value
      [] constraint.c = "Pattern" -> ~is_match(constraint.pattern_str, v)
      [] constraint.c = "StartsWith" -> ~starts_with(v, constraint.prefix)

CodeOf(constraint) ==
    CASE constraint.c = "Min" -> "min_value"
      [] constraint.c = "Max" -> "max_value"
      [] constraint.c = "Positive" -> "positive"
      [] constraint.c = "NonNegative" -> "non_negative"
      [] constraint.c = "Negative" -> "negative"
      [] constraint.c = "MinLength" -> "min_length"
      [] constraint.c = "MaxLength" -> "max_length"
      [] constraint.c = "Pattern" -> "pattern"
      [] constraint.c = "StartsWith" -> "invalid_prefix"

\* The codes of the constraints v violates, in the order of the constraints.
RECURSIVE ViolatedCodes(_, _)
ViolatedCodes(constraints, v) ==
    IF constraints = <<>> THEN <<>>
    ELSE (IF Violates(Head(constraints), v) THEN <<CodeOf(Head(constraints))>> ELSE <<>>)
         \o ViolatedCodes(Tail(constraints), v)

\* The codes of the errors the custom validators return for v, in order.
RECURSIVE RejectedCodes(_, _)
RejectedCodes(validators, v) ==
    IF validators = <<>> THEN <<>>
    ELSE (IF v \in Head(validators).rejects THEN Head(validators).codes ELSE <<>>)
         \o RejectedCodes(Tail(validators), v)

\* The codes the claim expects of the leaf on top.
ExpectedCodes ==
    ViolatedCodes(Top.schema.constraints, Constrained)
    \o (IF Top.schema.kind = "string"
        THEN RejectedCodes(Top.schema.custom_validators, Constrained)
        ELSE <<>>)

\* C19: for a value that passes the type check, a leaf schema evaluates
\* every constraint: the Failure holds exactly one error per violated
\* constraint, in the order the constraints were added, followed by the
\* errors of the custom validators, all at the path of the call; the result
\* is Success exactly when no constraint and no custom validator fails.
C19_AllConstraints ==
    [][LeafRightType =>
          /\ stack' = SubSeq(stack, 1, Len(stack) - 1)
          /\ LET r == Returned(stack', ret', last')
             IN  /\ r.ok <=> ExpectedCodes = <<>>
                 /\ [k \in 1..Len(r.errors) |-> r.errors[k].code] = ExpectedCodes
                 /\ \A k \in 1..Len(r.errors) : r.errors[k].path = Top.path]_vars

\* The string schema with min_len(10), a pattern, a prefix and two custom
\* validators, validated on "abc", has returned the errors of the two
\* constraints "abc" violates, then those of the validators.
C19_Witness ==
    /\ last.op = "schema_validate"
    /\ ~last.pending
    /\ last.arg.schema = long
    /\ last.arg.value = Str(abc)
    /\ [k \in 1..Len(last.result.errors) |-> last.result.errors[k].code]
         = <<"min_length", "pattern", "reserved", "banned", "validation_error">>

\* A Validation that, when a Failure, holds at least one error, each with a
\* path, a message and a code.
WellFormed(r) ==
    ~r.ok =>
        /\ Len(r.errors) >= 1
        /\ \A k \in 1..Len(r.errors) :
               /\ DOMAIN r.errors[k] = {"path", "message", "code"}
               /\ r.errors[k].code # ""

\* C20: every Failure a schema of any kind returns to its caller, and every
\* Failure Registry.validate returns, holds at least one error, each with a
\* path, a message and a code: no error collection is made of an empty list.
C20_FailureNonEmpty ==
    /\ ret # <<>> => WellFormed(ret[1])
    /\ (last.op = "schema_validate" /\ ~last.pending) => WellFormed(last.result)
    /\ (last.op = "validate" /\ ~last.pending /\ last.result.is_ok)
           => WellFormed(last.result.v)

\* Registry.validate of "A", registered as an object schema that denies
\* additional properties, has returned a Failure with two errors for an
\* object value.
C20_Witness ==
    /\ last.op = "validate"
    /\ ~last.pending
    /\ last.result.is_ok
    /\ MapOf(1)["A"].kind = "object"
    /\ last.arg.t = "object"
    /\ ~last.result.v.ok
    /\ Len(last.result.v.errors) = 2

---------------------------------------------------------------------------
(* Properties of object schemas.                                           *)

\* An object schema validated on its own has returned.
ObjectDone ==
    /\ last.op = "schema_validate"
    /\ ~last.pending
    /\ last.arg.schema.kind = "object"

\* The paths of the errors of a Validation, in order.
Paths(r) == [k \in 1..Len(r.errors) |-> r.errors[k].path]

\* The codes of the errors of a Validation, in order.
CodeSeq(r) == [k \in 1..Len(r.errors) |-> r.errors[k].code]

\* C21: an Object schema reports the errors of its declared fields in the
\* order the fields were declared, whatever the key order of the input and
\* the alphabetical order of the names: fields declared z, a, m validated
\* against {} give three required errors at paths z, a, m, in that order.
C21_FieldOrder ==
    ObjectDone =>
        LET fields == last.arg.schema.fields
            r == last.result
        IN  /\ \A i, j \in 1..Len(r.errors) : \A ki, kj \in 1..Len(fields) :
                   (/\ i < j
                    /\ r.errors[i].path = push_field(root, fields[ki].name)
                    /\ r.errors[j].path = push_field(root, fields[kj].name))
                       => ki <= kj
            /\ (last.arg.schema = zam /\ last.arg.value = Obj(<<>>)) =>
                   /\ CodeSeq(r) = <<"required", "required", "required">>
                   /\ Paths(r) = <<push_field(root, "z"), push_field(root, "a"),
                                   push_field(root, "m")>>

\* The schema with fields z, a, m has returned for {}, and for an object
\* whose keys a, m, z hold null, 1 and 1.
C21_Witness ==
    /\ ObjectDone
    /\ last.arg.schema = zam
    /\ last.arg.value \in {Obj(<<>>), Obj([m |-> Num(1), z |-> Num(1), a |-> Null])}
    /\ ~last.result.ok

\* The value the field's schema makes of a present key's value, when this is
\* a leaf schema and accepts it: <<>> when it rejects it.
FieldOutput(fd, value) ==
    LET r == IF fd.schema.kind = "integer"
             THEN IntegerValidate(fd.schema, value, push_field(root, fd.name))
             ELSE StringValidate(fd.schema, value, push_field(root, fd.name))
    IN  IF r.ok THEN <<r.value>> ELSE <<>>

\* The errors of a Validation that sit at the path of field name.
ErrorsAt(r, name) ==
    SelectSeq(r.errors, LAMBDA e : e.path = push_field(root, name))

\* C22: for each declared field of an Object schema: a present key's value
\* is validated and, on success, the validated (possibly transformed) value
\* is in the output; an absent key of a required field adds one error, with
\* code required, at the field's path; an absent key of an optional field
\* puts the default in the output if there is one, and otherwise the key is
\* not in the output; no default is used for a key that is present, also
\* when its value fails validation.
C22_Fields ==
    (ObjectDone /\ last.arg.value.t = "object") =>
        LET in == last.arg.value.m
            r == last.result
            fields == last.arg.schema.fields
        IN  \A k \in 1..Len(fields) :
                LET fd == fields[k]
                    present == fd.name \in DOMAIN in
                IN  /\ (present /\ FieldOutput(fd, in[fd.name]) # <<>>) =>
                           /\ ErrorsAt(r, fd.name) = <<>>
                           /\ r.ok => /\ fd.name \in DOMAIN r.value.m
                                      /\ r.value.m[fd.name] = FieldOutput(fd, in[fd.name])[1]
                    /\ (present /\ FieldOutput(fd, in[fd.name]) = <<>>) =>
                           /\ ~r.ok
                           /\ ErrorsAt(r, fd.name) # <<>>
                           /\ \A i \in 1..Len(r.errors) :
                                  r.errors[i].path = push_field(root, fd.name)
                                      => r.errors[i].code # "required"
                    /\ (~present /\ fd.required) =>
                           /\ ~r.ok
                           /\ Len(ErrorsAt(r, fd.name)) = 1
                           /\ ErrorsAt(r, fd.name)[1].code = "required"
                    /\ (~present /\ ~fd.required) =>
                           /\ ErrorsAt(r, fd.name) = <<>>
                           /\ r.ok => IF fd.default # None
                                      THEN /\ fd.name \in DOMAIN r.value.m
                                           /\ r.value.m[fd.name] = fd.default[1]
                                      ELSE fd.name \notin DOMAIN r.value.m

\* {"a": 42} has been accepted by the schema with a required a, an optional
\* m and a z with default 7: the output holds a and z, and no m.
C22_Witness ==
    /\ ObjectDone
    /\ last.arg.schema = ObjectSchema(ProfileFields, Allow)
    /\ last.arg.value = Obj([a |-> Num(42)])
    /\ last.result.ok
    /\ last.result.value.m = [a |-> Num(42), z |-> Num(7)]

\* What a leaf schema makes of a value: <<>> when it rejects it.
LeafOutput(schema, value) ==
    LET r == IF schema.kind = "integer"
             THEN IntegerValidate(schema, value, root)
             ELSE StringValidate(schema, value, root)
    IN  IF r.ok THEN <<r.value>> ELSE <<>>

\* The keys and values a cross-field validator is to see of input in: the
\* declared fields that validated, the defaults of absent optional fields,
\* and the additional properties that were accepted.
View(schema, in) ==
    LET fields == schema.fields
        declared == {k \in 1..Len(fields) :
                        IF fields[k].name \in DOMAIN in
                        THEN LeafOutput(fields[k].schema, in[fields[k].name]) # <<>>
                        ELSE ~fields[k].required /\ fields[k].default # None}
        extra == {key \in DOMAIN in \ FieldNames(schema) :
                     CASE schema.additional_properties.policy = "Allow" -> TRUE
                       [] schema.additional_properties.policy = "Deny" -> FALSE
                       [] schema.additional_properties.policy = "Validate" ->
                            LeafOutput(schema.additional_properties.schema, in[key]) # <<>>}
        FieldOf(name) == fields[CHOOSE k \in declared : fields[k].name = name]
    IN  [name \in {fields[k].name : k \in declared} \cup extra |->
            IF name \in extra
            THEN IF schema.additional_properties.policy = "Allow" THEN in[name]
                 ELSE LeafOutput(schema.additional_properties.schema, in[name])[1]
            ELSE IF name \in DOMAIN in
            THEN LeafOutput(FieldOf(name).schema, in[name])[1]
            ELSE FieldOf(name).default[1]]

\* C23: with the default setting, when the fields or the additional
\* properties of an Object schema have produced an error, no cross-field
\* validator adds one; when they have produced none, or when
\* skip_cross_field_on_errors(false) was set, every cross-field validator is
\* called once, in the order it was added, on a view that holds only what
\* validated (with the defaults and the accepted additional properties),
\* and its errors come after the field errors.
C23_CrossField ==
    (ObjectDone /\ last.arg.value.t = "object") =>
        LET schema == last.arg.schema
            r == last.result
            field_errors == SelectSeq(r.errors, LAMBDA e : e.path # root)
            cross_errors == SelectSeq(r.errors, LAMBDA e : e.path = root)
        IN  IF schema.skip_on_field_errors /\ field_errors # <<>>
            THEN cross_errors = <<>>
            ELSE /\ cross_errors = CrossFieldErrors(schema.cross_field_validators,
                                                    View(schema, last.arg.value.m), root)
                 /\ r.errors = field_errors \o cross_errors

\* With skip_cross_field_on_errors(false), an object whose a and m fail
\* their schemas has got the two field errors and then the error of
\* at_least_one_of, which saw neither m nor x.
C23_Witness ==
    /\ ObjectDone
    /\ ~last.arg.schema.skip_on_field_errors
    /\ last.arg.value = Obj([m |-> Num(1), z |-> Num(1), a |-> Null])
    /\ CodeSeq(last.result) = <<"invalid_type", "invalid_type", "at_least_one_required">>

---------------------------------------------------------------------------
(* Properties of array schemas.                                            *)

\* An array schema validated on its own has returned for an array.
ArrayDone ==
    /\ last.op = "schema_validate"
    /\ ~last.pending
    /\ last.arg.schema.kind = "array"
    /\ last.arg.value.t = "array"

\* What a uniqueness constraint compares of an item.
KeyOf(c, item) ==
    IF c.c = "Unique" THEN item
    ELSE IF item.t = "object" /\ c.key \in DOMAIN item.m THEN item.m[c.key]
    ELSE Null

\* The groups of two or more (0-based) positions of arr that constraint c
\* cannot tell apart.
Groups(arr, c) ==
    {g \in SUBSET (0..(Len(arr) - 1)) :
        /\ Cardinality(g) >= 2
        /\ \E i \in g : g = {j \in 0..(Len(arr) - 1) :
                                 KeyOf(c, arr[j + 1]) = KeyOf(c, arr[i + 1])}}

\* The message of the error of a uniqueness constraint.
UniqueFmt(c) ==
    IF c.c = "Unique" THEN "duplicate value at indices {:?}"
    ELSE "duplicate key at indices {:?}"

\* The item is valid for the item schema of the arrays validated here: an
\* integer schema, or an object schema with leaf fields that allows
\* additional properties.
ItemValid(schema, item) ==
    IF schema.kind = "object"
    THEN /\ item.t = "object"
         /\ \A k \in 1..Len(schema.fields) :
                IF schema.fields[k].name \in DOMAIN item.m
                THEN LeafOutput(schema.fields[k].schema, item.m[schema.fields[k].name]) # <<>>
                ELSE ~schema.fields[k].required
    ELSE LeafOutput(schema, item) # <<>>

\* The positions of the errors of r that satisfy Is.
ErrorsWith(r, Is(_)) == {k \in 1..Len(r.errors) : Is(r.errors[k])}

\* C24: an Array schema checks uniqueness on the raw input items,
\* independently of item validation: every group of two or more items with
\* the same canonical form (of the item, or of the key taken from it) gets
\* exactly one error with code unique naming the group's indices, also when
\* the items of the group fail the item schema; and the length errors, the
\* item errors and the uniqueness errors of one array are all in the same
\* Failure: [1, -2, 1] against min_len(5), positive items and unique gives
\* min_length, positive and unique.
C24_Uniqueness ==
    ArrayDone =>
        LET schema == last.arg.schema
            arr == last.arg.value.items
            r == last.result
            cs == schema.constraints
            uniq == {k \in 1..Len(cs) : cs[k].c \in {"Unique", "UniqueBy"}}
            IsUnique(e) == e.code = "unique"
        IN  /\ \A k \in uniq : \A g \in Groups(arr, cs[k]) :
                   LET IsGroup(e) == /\ e.code = "unique"
                                     /\ e.path = root
                                     /\ e.message.fmt = UniqueFmt(cs[k])
                                     /\ e.message.indices = Ascending(g)
                   IN  Cardinality(ErrorsWith(r, IsGroup)) = 1
            /\ \A e \in ErrorsWith(r, IsUnique) :
                   \E k \in uniq : \E g \in Groups(arr, cs[k]) :
                       /\ r.errors[e].message.fmt = UniqueFmt(cs[k])
                       /\ r.errors[e].message.indices = Ascending(g)
            /\ \A k \in 1..Len(cs) :
                   LET IsLength(e) == /\ e.path = root
                                      /\ e.code = (IF cs[k].c = "MinLength" THEN "min_length"
                                                   ELSE "max_length")
                                      /\ e.message.num = cs[k].value
                   IN  /\ (cs[k].c = "MinLength" /\ Len(arr) < cs[k].value)
                           => ErrorsWith(r, IsLength) # {}
                       /\ (cs[k].c = "MaxLength" /\ Len(arr) > cs[k].value)
                           => ErrorsWith(r, IsLength) # {}
            /\ \A i \in 1..Len(arr) :
                   LET IsItem(e) == /\ e.path # root
                                    /\ e.path[1] = push_index(root, i - 1)[1]
                   IN  ~ItemValid(schema.item_schema, arr[i]) <=> ErrorsWith(r, IsItem) # {}
            /\ (/\ schema = ArraySchema(IntegerSchema(<<Positive>>), <<MinLength(5), Unique>>)
                /\ arr = <<Num(1), Num(-2), Num(1)>>)
                   => CodeSeq(r) = <<"min_length", "positive", "unique">>

\* [null, "abc", null, "abc"] against integer items and unique has
\* returned: all four items failed the item schema, and each of the two
\* pairs got its unique error.
C24_Witness ==
    /\ ArrayDone
    /\ last.arg.schema = ArraySchema(integer, <<Unique>>)
    /\ last.arg.value = Arr(<<Null, Str(abc), Null, Str(abc)>>)
    /\ Len(last.result.errors) = 6
    /\ Cardinality({k \in 1..6 : last.result.errors[k].code = "unique"}) = 2

---------------------------------------------------------------------------
(* Properties of error sets.                                               *)

\* C25: for any three error sets a, b, c, (a.combine(b)).combine(c) and
\* a.combine(b.combine(c)) hold the same errors: combine appends the errors
\* of its argument after those of the receiver, so the length of a result is
\* the sum of the lengths and both groupings give the same sequence.
C25_Associative ==
    /\ last.op = "a.b" =>
           /\ into_vec(last.result) = into_vec(last.arg.a) \o into_vec(last.arg.b)
           /\ len(last.result) = len(last.arg.a) + len(last.arg.b)
    /\ seen.op = "a.(b.c)" =>
           /\ into_vec(seen.result) =
                  into_vec(seen.arg.a) \o into_vec(seen.arg.b) \o into_vec(seen.arg.c)
           /\ len(seen.result) = len(seen.arg.a) + len(seen.arg.b) + len(seen.arg.c)
    /\ (last.op = "(a.b).c" /\ seen.op = "a.(b.c)") =>
           /\ last.result = seen.result
           /\ len(last.result) = len(last.arg.a) + len(last.arg.b) + len(last.arg.c)

\* Both groupings of three error sets of more than one error each have been
\* computed.
C25_Witness ==
    /\ last.op = "(a.b).c"
    /\ seen.op = "a.(b.c)"
    /\ len(last.arg.a) = 3
    /\ len(last.arg.b) = 2
    /\ len(last.arg.c) = 3
    /\ len(seen.result) = 8

---------------------------------------------------------------------------
(* Properties of the parallel validators.                                  *)

\* C26: validate_with_env_parallel returns, for every value and every list
\* of attached validators, the same result as validate_with_env: the same
\* success value, or the same errors in the order the validators were
\* attached, in whatever order the parallel workers finish.
C26_ParallelSame ==
    (last.op = "validate_with_env_parallel" /\ ~last.pending) =>
        last.result = validate_with_env(last.arg.schema, last.arg.value, root)

\* Three validators were attached, the workers finished in the order 3, 2,
\* 1, and the call returned the errors of the first and the third, which
\* are not the same.
C26_Witness ==
    /\ last.op = "validate_with_env_parallel"
    /\ ~last.pending
    /\ last.before = <<3, 2, 1>>
    /\ ~last.result.ok
    /\ Len(last.result.errors) = 3
    /\ last.result.errors[1] # last.result.errors[3]

---------------------------------------------------------------------------
(* Properties of the context under combinators.                            *)

\* The calls of Ref nodes below call i of the stack.
RefsBelow(i) == {j \in 1..(i - 1) : stack[j].schema.kind = "ref"}

\* C27: every combinator (OneOf, AnyOf, AllOf, Optional) passes the context
\* it received to each component unchanged: the component is validated at
\* the same depth, with the same max_depth and the same registry as the
\* combinator, so that nesting combinators to any depth consumes none of the
\* depth budget: the depth of a call is the number of references followed
\* to reach it.
C27_ContextUnchanged ==
    /\ \A i \in 1..(Len(stack) - 1) :
           IsCombinator(stack[i].schema) => stack[i + 1].context = stack[i].context
    /\ \A i \in 1..Len(stack) : stack[i].context.depth = Cardinality(RefsBelow(i))

\* Three combinators nested in each other are validating a component, two
\* references deep.
C27_Witness ==
    /\ Len(stack) >= 4
    /\ \A i \in (Len(stack) - 3)..(Len(stack) - 1) : IsCombinator(stack[i].schema)
    /\ stack[Len(stack) - 3].context.has
    /\ Top.context.depth = 2

\* C30: array validation is deterministic: the same value validated twice
\* against the same Array schema gives the same errors in the same order,
\* also when the array holds two or more groups of duplicate items under a
\* unique or unique_by constraint.
C30_Deterministic ==
    (ArrayDone /\ last.before # <<>>) => last.result = last.before[1]

---------------------------------------------------------------------------
(* Properties of schema trees without references.                          *)

\* C28: for every schema tree without a Ref node (leaves, arrays, objects
\* and combinators nested in any way), every value and every context,
\* validate_value_with_context and validate_value return the same result:
\* the same success value, or the same errors in the same order.
C28_SameWithContext ==
    (last.op = "schema_validate_with_context" /\ ~last.pending)
        => last.result = last.before[1]

---------------------------------------------------------------------------
(* Properties of the lock.                                                 *)

\* Thread t is in a call of the registry.
Busy(t) == ~In(t, "idle")

\* Thread t holds a guard of the lock.
Holds(t) == lock.readers[t] > 0 \/ lock.writer = t

\* Thread t is in read() or write() and the lock does not let it through.
Blocked(t) ==
    \/ In(t, "read") /\ ~can_read(lock)
    \/ In(t, "write") /\ ~can_write(lock)

\* No thread calls read() or write() while it holds a guard.
NoReentry == \A t \in Threads : (In(t, "read") \/ In(t, "write")) => ~Holds(t)

\* The threads in a call are not all blocked.
NoDeadlock == (\E t \in Threads : Busy(t)) => (\E t \in Threads : Busy(t) /\ ~Blocked(t))

\* C29: no registry operation acquires the registry lock while the same
\* thread already holds it: get and each Ref lookup take and release the
\* read lock before the resolved schema is validated, and validate_refs
\* holds the read lock only around collect_refs calls that never touch the
\* registry.  So under any interleaving of register, get, validate and
\* validate_refs on a shared registry no thread deadlocks, and every call
\* completes once the threads are scheduled.
C29_NoDeadlock ==
    /\ [](NoReentry /\ NoDeadlock)
    /\ [](\A t \in Threads : In(t, "running") => ~Holds(t))
    /\ \A t \in Threads : Busy(t) ~> ~Busy(t)

\* Thread 1 is at the read() of a Ref lookup inside validate and has to
\* wait, because thread 2 holds the write guard of a register.
C29_Witness ==
    /\ At(1, "read", "validate")
    /\ Running
    /\ Top.schema.kind = "ref"
    /\ lock.writer = 2
    /\ Blocked(1)

====
